---------------------------- MODULE Spec2Model ----------------------------
(***************************************************************************)
(* A model of the table-question agent: the solver loop of TableAgent      *)
(* (src/agent/agent.py), the model-query wrappers (src/agent/agent.py,     *)
(* src/agent/model.py) and the statement evaluator python_repl_ast         *)
(* (src/utils/execute.py).                                                 *)
(*                                                                         *)
(* Text is a sequence of one-character strings, so that the string         *)
(* operations of the code (startswith, strip, lower, in, split) are        *)
(* computed on the characters the way Python computes them.  The backtick  *)
(* character is written "backtick": a TLA+ string cannot hold it.          *)
(***************************************************************************)
EXTENDS Integers, Sequences, FiniteSets, TLC

(***************************************************************************)
(* String literals of the program.                                         *)
(***************************************************************************)
\* agent.py:196  solution += 'Thought: '
THOUGHT ==
    <<"T", "h", "o", "u", "g", "h", "t", ":", " ">>

\* agent.py:205  text.startswith('Error:')
ERROR_PREFIX ==
    <<"E", "r", "r", "o", "r", ":">>

\* agent.py:203
FAILED_RESPONSE ==
    <<"E", "r", "r", "o", "r", ":", " ", "F", "a", "i", "l", "e", "d", " ", "t", "o", " ", "g",
      "e", "t", " ", "r", "e", "s", "p", "o", "n", "s", "e", " ", "f", "r", "o", "m", " ", "m",
      "o", "d", "e", "l">>

\* agent.py:150  'final answer:' in text.lower()
FINAL_ANSWER_MARKER ==
    <<"f", "i", "n", "a", "l", " ", "a", "n", "s", "w", "e", "r", ":">>

\* agent.py:221, 225
ACTION_MARKER ==
    <<"A", "c", "t", "i", "o", "n", ":">>

\* agent.py:248  text.split('Answer:')
ANSWER_MARKER ==
    <<"A", "n", "s", "w", "e", "r", ":">>

\* agent.py:222
NO_ACTION ==
    <<"E", "r", "r", "o", "r", ":", " ", "n", "o", " ", "A", "c", "t", "i", "o", "n", " ", "p",
      "r", "o", "v", "i", "d", "e", "d", ".">>

\* agent.py:229
INDEX_OUT_OF_BOUNDS ==
    <<"E", "r", "r", "o", "r", ":", " ", "I", "n", "d", "e", "x", " ", "o", "u", "t", " ", "o",
      "f", " ", "b", "o", "u", "n", "d", "s", " ", "-", " ">>

\* agent.py:231
ERROR_SPACE ==
    <<"E", "r", "r", "o", "r", ":", " ">>

\* agent.py:234
OBSERVATION_TOO_LONG ==
    <<"O", "b", "s", "e", "r", "v", "a", "t", "i", "o", "n", " ", "i", "s", " ", "t", "o", "o",
      " ", "l", "o", "n", "g", ",", " ", "w", "e", " ", "c", "a", "n", "n", "o", "t", " ", "q",
      "u", "e", "r", "y", " ", "t", "h", "e", " ", "A", "P", "I", ".">>

\* agent.py:236
SUCCESS_MARKER ==
    <<"s", "u", "c", "c", "e", "s", "s", "!">>

\* agent.py:242  f'\nObservation: {observation}\n'
OBSERVATION_HEAD ==
    <<"\n", "O", "b", "s", "e", "r", "v", "a", "t", "i", "o", "n", ":", " ">>

\* agent.py:250
EXTRACT_FAILED ==
    <<"E", "r", "r", "o", "r", ":", " ", "F", "a", "i", "l", "e", "d", " ", "t", "o", " ", "e",
      "x", "t", "r", "a", "c", "t", " ", "a", "n", "s", "w", "e", "r", " ", "f", "r", "o", "m",
      " ", "r", "e", "s", "p", "o", "n", "s", "e">>

\* agent.py:164
PROMPT_LENGTH ==
    <<"P", "r", "o", "m", "p", "t", " ", "l", "e", "n", "g", "t", "h", " ", "-", "-", " ">>

\* agent.py:164
IS_TOO_LONG ==
    <<" ", "i", "s", " ", "t", "o", "o", " ", "l", "o", "n", "g", ",", " ", "w", "e", " ", "c",
      "a", "n", "n", "o", "t", " ", "q", "u", "e", "r", "y", " ", "t", "h", "e", " ", "A", "P",
      "I", ".">>

\* model.py:44
CONTENTS_EMPTY ==
    <<"C", "o", "n", "t", "e", "n", "t", "s", " ", "m", "u", "s", "t", " ", "n", "o", "t", " ",
      "b", "e", " ", "e", "m", "p", "t", "y", ".">>

\* model.py:48
EMPTY_RESPONSE ==
    <<"E", "r", "r", "o", "r", ":", " ", "E", "m", "p", "t", "y", " ", "r", "e", "s", "p", "o",
      "n", "s", "e", " ", "f", "r", "o", "m", " ", "A", "P", "I">>

\* model.py:51
API_CALL_FAILED ==
    <<"E", "r", "r", "o", "r", ":", " ", "A", "P", "I", " ", "c", "a", "l", "l", " ", "f", "a",
      "i", "l", "e", "d", " ", "-", " ">>

\* execute.py:35
TRIPLE_BACKTICK ==
    <<"backtick", "backtick", "backtick">>

\* execute.py:41
BACKTICK ==
    <<"backtick">>

\* execute.py:138
EMPTY_DATAFRAME ==
    <<"E", "m", "p", "t", "y", " ", "D", "a", "t", "a", "F", "r", "a", "m", "e">>

\* execute.py:120  '{}: {}'.format(type(e).__name__, str(e))
COLON_SPACE ==
    <<":", " ">>

\* the newline character
NL ==
    <<"\n">>

\* agent.py:299
TOO_LARGE ==
    <<"E", "r", "r", "o", "r", ":", " ", "t", "a", "b", "l", "e", " ", "i", "s", " ", "t", "o",
      "o", " ", "l", "a", "r", "g", "e", ".">>

\* rag_agent.py:52
SCHEMA_FAILED ==
    <<"E", "r", "r", "o", "r", ":", " ", "S", "c", "h", "e", "m", "a", " ", "r", "e", "t", "r",
      "i", "e", "v", "a", "l", " ", "f", "a", "i", "l", "e", "d">>

\* rag_agent.py:105
CELL_FAILED ==
    <<"E", "r", "r", "o", "r", ":", " ", "C", "e", "l", "l", " ", "r", "e", "t", "r", "i", "e",
      "v", "a", "l", " ", "f", "a", "i", "l", "e", "d">>

\* rag_agent.py:68
SCHEMA_QUERIES_HEAD ==
    <<"S", "c", "h", "e", "m", "a", " ", "R", "e", "t", "r", "i", "e", "v", "a", "l", " ", "Q",
      "u", "e", "r", "i", "e", "s", ":", " ">>

\* rag_agent.py:69
SCHEMA_RESULTS_HEAD ==
    <<"S", "c", "h", "e", "m", "a", " ", "R", "e", "t", "r", "i", "e", "v", "a", "l", " ", "R",
      "e", "s", "u", "l", "t", "s", ":", "\n">>

\* rag_agent.py:122
CELL_QUERIES_HEAD ==
    <<"C", "e", "l", "l", " ", "R", "e", "t", "r", "i", "e", "v", "a", "l", " ", "Q", "u", "e",
      "r", "i", "e", "s", ":", " ">>

\* rag_agent.py:123
CELL_RESULTS_HEAD ==
    <<"C", "e", "l", "l", " ", "R", "e", "t", "r", "i", "e", "v", "a", "l", " ", "R", "e", "s",
      "u", "l", "t", "s", ":", "\n">>

\* rag_agent.py:68, 122  ', '.join
COMMA_SPACE ==
    <<",", " ">>

\* rag_agent.py:55, 108  text.find('[')
LEFT_BRACKET ==
    <<"[">>

\* rag_agent.py:55, 108  text.find(']')
RIGHT_BRACKET ==
    <<"]">>

\* retriever.py:136-140  the lines of a schema text
COLUMN_HEAD ==
    <<"C", "o", "l", "u", "m", "n", ":", " ">>

TYPE_HEAD ==
    <<"\n", "T", "y", "p", "e", ":", " ">>

UNIQUE_HEAD ==
    <<"\n", "U", "n", "i", "q", "u", "e", " ", "v", "a", "l", "u", "e", "s", ":", " ">>

NON_NULL_HEAD ==
    <<"\n", "N", "o", "n", "-", "n", "u", "l", "l", " ", "v", "a", "l", "u", "e", "s", ":", " ">>

NULL_HEAD ==
    <<"\n", "N", "u", "l", "l", " ", "v", "a", "l", "u", "e", "s", ":", " ">>

(***************************************************************************)
(* Python string operations, on sequences of characters.                   *)
(***************************************************************************)
UpperCase ==
    <<"A", "B", "C", "D", "E", "F", "G", "H", "I", "J", "K", "L", "M",
      "N", "O", "P", "Q", "R", "S", "T", "U", "V", "W", "X", "Y", "Z">>

LowerCase ==
    <<"a", "b", "c", "d", "e", "f", "g", "h", "i", "j", "k", "l", "m",
      "n", "o", "p", "q", "r", "s", "t", "u", "v", "w", "x", "y", "z">>

Digits == <<"0", "1", "2", "3", "4", "5", "6", "7", "8", "9">>

\* str.strip() and the regular expression class \s
Whitespace == {" ", "\n", "\t", "\r"}

\* the regular expression class \w
WordChars ==
    {UpperCase[k] : k \in 1..26} \cup {LowerCase[k] : k \in 1..26}
        \cup {Digits[k] : k \in 1..10} \cup {"_"}

\* F(e), with e evaluated once
Bind(e, F(_)) == CHOOSE r \in {F(x) : x \in {e}} : TRUE

SetMin(S) == CHOOSE m \in S : \A n \in S : m <= n

SetMax(S) == CHOOSE m \in S : \A n \in S : n <= m

\* s[a:]  (1-based: the characters from position a on)
Tail_from(s, a) == SubSeq(s, a, Len(s))

\* s.startswith(p)
str_startswith(s, p) == Len(p) <= Len(s) /\ SubSeq(s, 1, Len(p)) = p

\* s.find(p, k): the least position j >= k where p occurs in s, 0 when none
str_find(s, p, k) ==
    LET hits == {j \in k..(Len(s) - Len(p) + 1) : SubSeq(s, j, j + Len(p) - 1) = p}
    IN  IF hits = {} THEN 0 ELSE SetMin(hits)

\* p in s
str_in(p, s) == str_find(s, p, 1) # 0

\* c.lower() of one character
char_lower(c) ==
    IF \E k \in 1..26 : UpperCase[k] = c
    THEN LowerCase[CHOOSE k \in 1..26 : UpperCase[k] = c]
    ELSE c

\* s.lower()
str_lower(s) == [k \in 1..Len(s) |-> char_lower(s[k])]

\* s.strip()
str_strip(s) ==
    LET ks == {k \in 1..Len(s) : s[k] \notin Whitespace}
    IN  IF ks = {} THEN <<>> ELSE SubSeq(s, SetMin(ks), SetMax(ks))

\* s.split(sep)[-1]: split scans left to right over non-overlapping
\* occurrences of sep; the last piece follows the last of them
RECURSIVE split_last(_, _)
split_last(s, sep) ==
    Bind(str_find(s, sep, 1), LAMBDA j :
        IF j = 0 THEN s ELSE split_last(Tail_from(s, j + Len(sep)), sep))

\* s.split(sep)[0]: the piece before the first occurrence of sep
split_first(s, sep) ==
    Bind(str_find(s, sep, 1), LAMBDA j : IF j = 0 THEN s ELSE SubSeq(s, 1, j - 1))

\* str(n) of a non-negative integer
RECURSIVE int_str(_)
int_str(n) ==
    IF n < 10 THEN <<Digits[n + 1]>>
    ELSE int_str(n \div 10) \o <<Digits[(n % 10) + 1]>>

\* Python names used by the evaluated code
NAME_x ==
    <<"x">>

NAME_y ==
    <<"y">>

\* agent.py:227  custom_locals={'df': df}
NAME_df ==
    <<"d", "f">>

\* Python exception type names and messages
NAME_ERROR ==
    <<"N", "a", "m", "e", "E", "r", "r", "o", "r">>

NAME_HEAD ==
    <<"n", "a", "m", "e", " ", "'">>

NAME_TAIL ==
    <<"'", " ", "i", "s", " ", "n", "o", "t", " ", "d", "e", "f", "i", "n", "e", "d">>

INDEX_ERROR ==
    <<"I", "n", "d", "e", "x", "E", "r", "r", "o", "r">>

INDEX_MSG ==
    <<"s", "i", "n", "g", "l", "e", " ", "p", "o", "s", "i", "t", "i", "o", "n", "a", "l", " ",
      "i", "n", "d", "e", "x", "e", "r", " ", "i", "s", " ", "o", "u", "t", "-", "o", "f", "-",
      "b", "o", "u", "n", "d", "s">>

TYPE_ERROR ==
    <<"T", "y", "p", "e", "E", "r", "r", "o", "r">>

TYPE_MSG ==
    <<"u", "n", "s", "u", "p", "p", "o", "r", "t", "e", "d", " ", "o", "p", "e", "r", "a", "n",
      "d", " ", "t", "y", "p", "e", "(", "s", ")">>

SYNTAX_ERROR ==
    <<"S", "y", "n", "t", "a", "x", "E", "r", "r", "o", "r">>

SYNTAX_MSG ==
    <<"i", "n", "v", "a", "l", "i", "d", " ", "s", "y", "n", "t", "a", "x", " ", "(", "<", "u",
      "n", "k", "n", "o", "w", "n", ">", ",", " ", "l", "i", "n", "e", " ", "1", ")">>

ZERO_DIVISION_ERROR ==
    <<"Z", "e", "r", "o", "D", "i", "v", "i", "s", "i", "o", "n", "E", "r", "r", "o", "r">>

ZERO_DIVISION_MSG ==
    <<"i", "n", "t", "e", "g", "e", "r", " ", "d", "i", "v", "i", "s", "i", "o", "n", " ", "o",
      "r", " ", "m", "o", "d", "u", "l", "o", " ", "b", "y", " ", "z", "e", "r", "o">>

SYSTEM_EXIT ==
    <<"S", "y", "s", "t", "e", "m", "E", "x", "i", "t">>

\* stands for pandas' rendering of a table or a row
TABLE_TEXT ==
    <<"r", "o", "w", "s", ":", " ">>

\* Code blocks the model may propose
CODE_assign_x ==
    <<"x", " ", "=", " ", "1">>

CODE_read_x ==
    <<"x">>

CODE_assign_then_fail ==
    <<"x", " ", "=", " ", "2", "\n", "y">>

CODE_iloc ==
    <<"d", "f", ".", "i", "l", "o", "c", "[", "1", "0", "0", "]">>

CODE_exit ==
    <<"e", "x", "i", "t", "(", ")">>

CODE_bad_syntax ==
    <<"1", " ", "+">>

CODE_rebind_df ==
    <<"d", "f", " ", "=", " ", "d", "f", ".", "h", "e", "a", "d", "(", "2", ")">>

CODE_len_df ==
    <<"l", "e", "n", "(", "d", "f", ")">>

CODE_print_then_add ==
    <<"p", "r", "i", "n", "t", "(", "'", "h", "i", "'", ")", "\n", "1", "+", "1">>

CODE_del_x ==
    <<"d", "e", "l", " ", "x">>

CODE_print_x ==
    <<"p", "r", "i", "n", "t", "(", "x", ")">>

CODE_two_passages ==
    <<"'", "#", "#", "'">>

CODE_print_passage ==
    <<"p", "r", "i", "n", "t", "(", "'", "#", "'", ")", "\n", "'", "1", "2", "3", "4", "5", "6",
      "7", "8", "'">>

TWO_PASSAGES ==
    <<"#", "#">>

ONE_PASSAGE ==
    <<"#">>

EIGHT_CHARS ==
    <<"1", "2", "3", "4", "5", "6", "7", "8">>

CODE_add ==
    <<"1", "+", "1">>

CODE_print_print ==
    <<"p", "r", "i", "n", "t", "(", "p", "r", "i", "n", "t", "(", "'", "h", "i", "'", ")", ")">>

CODE_count_twice ==
    <<"x", " ", "=", " ", "-", "1", "\n", "1", " ", "/", "/", " ", "(", "x", " ", ":", "=", " ",
      "x", " ", "+", " ", "1", ")">>

CODE_paren_df ==
    <<"(", "d", "f", ")">>

HI ==
    <<"h", "i">>

\* message of an exception raised by the API client
TIMEOUT ==
    <<"t", "i", "m", "e", "o", "u", "t">>

\* Texts the model may return
TEXT_final ==
    <<"T", "h", "o", "u", "g", "h", "t", ":", " ", "d", "o", "n", "e", "\n", "F", "i", "n", "a",
      "l", " ", "A", "n", "s", "w", "e", "r", ":", " ", "4", "2">>

TEXT_final_lower ==
    <<"f", "i", "n", "a", "l", " ", "a", "n", "s", "w", "e", "r", ":", " ", "4", "2">>

TEXT_final_with_action ==
    <<"A", "c", "t", "i", "o", "n", ":", " ", "x", " ", "=", " ", "1", "\n", "F", "I", "N", "A",
      "L", " ", "A", "N", "S", "W", "E", "R", ":", " ", "7">>

TEXT_no_action ==
    <<" ", "I", " ", "s", "h", "o", "u", "l", "d", " ", "l", "o", "o", "k", " ", "a", "t", " ",
      "t", "h", "e", " ", "t", "a", "b", "l", "e", ".", "\n">>

FENCE_python ==
    <<"backtick", "backtick", "backtick", "p", "y", "t", "h", "o", "n", "\n">>

FENCE_end ==
    <<"\n", "backtick", "backtick", "backtick">>

\* str(column.dtype) (retriever.py:127)
DTYPE_int64 ==
    <<"i", "n", "t", "6", "4">>

DTYPE_float64 ==
    <<"f", "l", "o", "a", "t", "6", "4">>

DTYPE_object ==
    <<"o", "b", "j", "e", "c", "t">>

\* JSON texts the planners parse
JSON_ab ==
    <<"[", "\"", "a", "\"", ",", " ", "\"", "b", "\"", "]">>

JSON_a ==
    <<"[", "\"", "a", "\"", "]">>

JSON_aa ==
    <<"[", "\"", "a", "\"", ",", " ", "\"", "a", "\"", "]">>

JSON_a1 ==
    <<"[", "\"", "a", "\"", ",", " ", "\"", "1", "\"", "]">>

JSON_number ==
    <<"[", "1", "]">>

JSON_null_a ==
    <<"[", "n", "u", "l", "l", ",", " ", "\"", "a", "\"", "]">>

JSON_empty ==
    <<"[", "]">>

JSON_scalar ==
    <<"1">>

\* Texts the model may return to a planner
RESP_prose ==
    <<"C", "o", "l", "u", "m", "n", "s", ":", " ", "[", "\"", "a", "\"", "]", " ", "a", "r", "e",
      " ", "n", "e", "e", "d", "e", "d", ".">>

RESP_none ==
    <<"n", "o", "n", "e">>

RESP_nested ==
    <<"[", "[", "\"", "a", "\"", "]", "]">>

RESP_ticks ==
    <<"[", "backtick", "1", "backtick", "]">>

KEY_a ==
    <<"a">>

KEY_b ==
    <<"b">>

KEY_1 ==
    <<"1">>

\* words float() accepts
WORD_nan ==
    <<"n", "a", "n">>

WORD_inf ==
    <<"i", "n", "f">>

WORD_infinity ==
    <<"i", "n", "f", "i", "n", "i", "t", "y">>

(***************************************************************************)
(* src/utils/execute.py: parse_code_from_string                            *)
(***************************************************************************)
\* the first position >= a whose character is not in S (Len(s) + 1 when
\* every later character is): where a greedy run [S]* starting at a ends
run_end(s, a, S) ==
    LET stops == {k \in a..Len(s) : s[k] \notin S}
    IN  IF stops = {} THEN Len(s) + 1 ELSE SetMin(stops)

\* re.search(r"```(\w*\s*)?(.*?)```", s, DOTALL): the leftmost opening
\* fence, the greedy language tag and blanks after it, then the shortest
\* text up to the next fence. [found, group2]
triple_backtick_match(s) ==
    LET p == str_find(s, TRIPLE_BACKTICK, 1)
        g == run_end(s, run_end(s, p + 3, WordChars), Whitespace)
        q == IF p = 0 THEN 0 ELSE str_find(s, TRIPLE_BACKTICK, g)
    IN  IF p = 0 \/ q = 0
        THEN [found |-> FALSE, group |-> <<>>]
        ELSE [found |-> TRUE, group |-> SubSeq(s, g, q - 1)]

\* re.search(r"`(.*?)`", s, DOTALL). [found, group1]
single_backtick_match(s) ==
    LET p == str_find(s, BACKTICK, 1)
        q == IF p = 0 THEN 0 ELSE str_find(s, BACKTICK, p + 1)
    IN  IF p = 0 \/ q = 0
        THEN [found |-> FALSE, group |-> <<>>]
        ELSE [found |-> TRUE, group |-> SubSeq(s, p + 1, q - 1)]

parse_code_from_string(input_string) ==
    LET triple == triple_backtick_match(input_string)
        single == single_backtick_match(input_string)
    IN  IF triple.found THEN str_strip(triple.group)
        ELSE IF single.found THEN str_strip(single.group)
        ELSE str_strip(input_string)

(***************************************************************************)
(* Python values and exceptions of the evaluated code.                     *)
(***************************************************************************)
IntVal(n) == [t |-> "int", n |-> n, s |-> <<>>]

StrVal(s) == [t |-> "str", n |-> 0, s |-> s]

NoneVal == [t |-> "none", n |-> 0, s |-> <<>>]

\* a pandas table of n rows
TableVal(n) == [t |-> "table", n |-> n, s |-> <<>>]

\* row k of a table
RowVal(k) == [t |-> "row", n |-> k, s |-> <<>>]

NoExc == [kind |-> <<>>, msg |-> <<>>, is_exception |-> FALSE]

\* an exception of class Exception
Exc(kind, msg) == [kind |-> kind, msg |-> msg, is_exception |-> TRUE]

\* SystemExit derives from BaseException, not from Exception
SystemExitExc == [kind |-> SYSTEM_EXIT, msg |-> <<>>, is_exception |-> FALSE]

Raised(x) == x.kind # <<>>

\* str(obj)
py_str(v) ==
    CASE v.t = "int"   -> int_str(v.n)
      [] v.t = "str"   -> v.s
      [] v.t = "none"  -> <<"N", "o", "n", "e">>
      [] OTHER         -> TABLE_TEXT \o int_str(v.n)

\* {**a, **b}, and a.update(b): the bindings of b over those of a
dict_merge(a, b) ==
    [k \in DOMAIN a \cup DOMAIN b |-> IF k \in DOMAIN b THEN b[k] ELSE a[k]]

EmptyDict == [k \in {} |-> NoneVal]

(***************************************************************************)
(* ast.parse on the code blocks above: the statements of each block.       *)
(***************************************************************************)
E_num(n) == [e |-> "num", n |-> n]

E_str(s) == [e |-> "str", s |-> s]

E_name(id) == [e |-> "name", id |-> id]

E_add(l, r) == [e |-> "add", l |-> l, r |-> r]

E_len(a) == [e |-> "len", a |-> a]

E_print(a) == [e |-> "print", a |-> a]

E_exit == [e |-> "exit"]

E_iloc(a, k) == [e |-> "iloc", a |-> a, k |-> k]

E_head(a, k) == [e |-> "head", a |-> a, k |-> k]

\* l // r
E_floordiv(l, r) == [e |-> "floordiv", l |-> l, r |-> r]

\* (target := value)
E_named(target, value) == [e |-> "named", target |-> target, value |-> value]

S_assign(target, value) == [op |-> "assign", target |-> target, value |-> value]

S_expr(value) == [op |-> "expr", value |-> value]

S_del(target) == [op |-> "del", target |-> target]

\* [ok, body, error]: tree.body, or the SyntaxError ast.parse raises
ast_parse(code) ==
    LET ok(body) == [ok |-> TRUE, body |-> body, error |-> NoExc]
    IN  CASE code = CODE_assign_x -> ok(<<S_assign(NAME_x, E_num(1))>>)
          [] code = CODE_read_x -> ok(<<S_expr(E_name(NAME_x))>>)
          [] code = CODE_assign_then_fail ->
                ok(<<S_assign(NAME_x, E_num(2)), S_expr(E_name(NAME_y))>>)
          [] code = CODE_iloc -> ok(<<S_expr(E_iloc(E_name(NAME_df), 100))>>)
          [] code = CODE_exit -> ok(<<S_expr(E_exit)>>)
          [] code = CODE_rebind_df ->
                ok(<<S_assign(NAME_df, E_head(E_name(NAME_df), 2))>>)
          [] code = CODE_len_df -> ok(<<S_expr(E_len(E_name(NAME_df)))>>)
          [] code = CODE_print_then_add ->
                ok(<<S_expr(E_print(E_str(HI))), S_expr(E_add(E_num(1), E_num(1)))>>)
          [] code = CODE_del_x -> ok(<<S_del(NAME_x)>>)
          [] code = CODE_print_x -> ok(<<S_expr(E_print(E_name(NAME_x)))>>)
          [] code = CODE_add -> ok(<<S_expr(E_add(E_num(1), E_num(1)))>>)
          [] code = CODE_print_print -> ok(<<S_expr(E_print(E_print(E_str(HI))))>>)
          [] code = CODE_two_passages -> ok(<<S_expr(E_str(TWO_PASSAGES))>>)
          [] code = CODE_print_passage ->
                ok(<<S_expr(E_print(E_str(ONE_PASSAGE))), S_expr(E_str(EIGHT_CHARS))>>)
          [] code = CODE_count_twice ->
                ok(<<S_assign(NAME_x, E_num(-1)),
                     S_expr(E_floordiv(E_num(1),
                                       E_named(NAME_x, E_add(E_name(NAME_x), E_num(1)))))>>)
          [] code = CODE_paren_df -> ok(<<S_expr(E_name(NAME_df))>>)
          [] code = <<>> -> ok(<<>>)
          [] OTHER -> [ok |-> FALSE, body |-> <<>>,
                       error |-> Exc(SYNTAX_ERROR, SYNTAX_MSG)]

(***************************************************************************)
(* Python's eval and exec on those statements.  locals is the namespace    *)
(* the code runs in, out is what it wrote to standard output.              *)
(***************************************************************************)
TypeErrorExc == Exc(TYPE_ERROR, TYPE_MSG)

\* eval(expression): [val, out, exc, locals], locals being the namespace
\* as the evaluation leaves it (a named expression binds its target)
RECURSIVE eval_expr(_, _)
eval_expr(e, locals) ==
    LET value(v) == [val |-> v, out |-> <<>>, exc |-> NoExc, locals |-> locals]
        raise(x) == [val |-> NoneVal, out |-> <<>>, exc |-> x, locals |-> locals]
    IN  CASE e.e = "num" -> value(IntVal(e.n))
          [] e.e = "str" -> value(StrVal(e.s))
          [] e.e = "name" ->
                IF e.id \in DOMAIN locals THEN value(locals[e.id])
                ELSE raise(Exc(NAME_ERROR, NAME_HEAD \o e.id \o NAME_TAIL))
          [] e.e \in {"add", "floordiv"} ->
                Bind(eval_expr(e.l, locals), LAMBDA l :
                    IF Raised(l.exc) THEN l
                    ELSE Bind(eval_expr(e.r, l.locals), LAMBDA r :
                        IF Raised(r.exc) THEN [r EXCEPT !.out = l.out \o r.out]
                        ELSE IF l.val.t # "int" \/ r.val.t # "int"
                        THEN [r EXCEPT !.val = NoneVal, !.out = l.out \o r.out,
                                       !.exc = TypeErrorExc]
                        ELSE IF e.e = "add"
                        THEN [r EXCEPT !.val = IntVal(l.val.n + r.val.n),
                                       !.out = l.out \o r.out]
                        ELSE IF r.val.n = 0
                        THEN [r EXCEPT !.val = NoneVal, !.out = l.out \o r.out,
                                       !.exc = Exc(ZERO_DIVISION_ERROR, ZERO_DIVISION_MSG)]
                        ELSE [r EXCEPT !.val = IntVal(l.val.n \div r.val.n),
                                       !.out = l.out \o r.out]))
          [] e.e = "named" ->
                Bind(eval_expr(e.value, locals), LAMBDA a :
                    IF Raised(a.exc) THEN a
                    ELSE [a EXCEPT !.locals =
                            dict_merge(a.locals, [k \in {e.target} |-> a.val])])
          [] e.e = "len" ->
                Bind(eval_expr(e.a, locals), LAMBDA a :
                    IF Raised(a.exc) THEN a
                    ELSE IF a.val.t = "table" THEN [a EXCEPT !.val = IntVal(a.val.n)]
                    ELSE IF a.val.t = "str" THEN [a EXCEPT !.val = IntVal(Len(a.val.s))]
                    ELSE [a EXCEPT !.val = NoneVal, !.exc = TypeErrorExc])
          [] e.e = "iloc" ->
                Bind(eval_expr(e.a, locals), LAMBDA a :
                    IF Raised(a.exc) THEN a
                    ELSE IF a.val.t # "table"
                    THEN [a EXCEPT !.val = NoneVal, !.exc = TypeErrorExc]
                    ELSE IF e.k >= a.val.n
                    THEN [a EXCEPT !.val = NoneVal, !.exc = Exc(INDEX_ERROR, INDEX_MSG)]
                    ELSE [a EXCEPT !.val = RowVal(e.k)])
          [] e.e = "head" ->
                Bind(eval_expr(e.a, locals), LAMBDA a :
                    IF Raised(a.exc) THEN a
                    ELSE IF a.val.t # "table"
                    THEN [a EXCEPT !.val = NoneVal, !.exc = TypeErrorExc]
                    ELSE [a EXCEPT !.val =
                            TableVal(IF e.k < a.val.n THEN e.k ELSE a.val.n)])
          [] e.e = "print" ->
                Bind(eval_expr(e.a, locals), LAMBDA a :
                    IF Raised(a.exc) THEN a
                    ELSE [a EXCEPT !.val = NoneVal, !.out = a.out \o py_str(a.val) \o NL])
          [] e.e = "exit" -> raise(SystemExitExc)

\* exec of one statement: [locals, out, exc].  A statement that raises
\* leaves the bindings its expression made before it raised.
exec_stmt(st, locals) ==
    CASE st.op = "assign" ->
            Bind(eval_expr(st.value, locals), LAMBDA r :
                IF Raised(r.exc)
                THEN [locals |-> r.locals, out |-> r.out, exc |-> r.exc]
                ELSE [locals |-> dict_merge(r.locals, [k \in {st.target} |-> r.val]),
                      out |-> r.out, exc |-> NoExc])
      [] st.op = "expr" ->
            Bind(eval_expr(st.value, locals), LAMBDA r :
                [locals |-> r.locals, out |-> r.out, exc |-> r.exc])
      [] st.op = "del" ->
            IF st.target \in DOMAIN locals
            THEN [locals |-> [k \in DOMAIN locals \ {st.target} |-> locals[k]],
                  out |-> <<>>, exc |-> NoExc]
            ELSE [locals |-> locals, out |-> <<>>,
                  exc |-> Exc(NAME_ERROR, NAME_HEAD \o st.target \o NAME_TAIL)]

\* one call of exec or eval on a statement: the namespace before and after
\* it, and the exception it raised
Ran(how, before, r) ==
    [how |-> how, before |-> before, after |-> r.locals, exc |-> r.exc]

\* exec of a sequence of statements, stopping at the first that raises:
\* [locals, out, exc, ran], ran being the calls made, statement by statement
RECURSIVE exec_block(_, _)
exec_block(stmts, locals) ==
    IF stmts = <<>> THEN [locals |-> locals, out |-> <<>>, exc |-> NoExc, ran |-> <<>>]
    ELSE Bind(exec_block(SubSeq(stmts, 1, Len(stmts) - 1), locals), LAMBDA done :
            IF Raised(done.exc) THEN done
            ELSE Bind(exec_stmt(stmts[Len(stmts)], done.locals), LAMBDA r :
                    [locals |-> r.locals, out |-> done.out \o r.out, exc |-> r.exc,
                     ran |-> Append(done.ran, Ran("exec", done.locals, r))]))
(***************************************************************************)
(* src/utils/execute.py: object_to_string, python_repl_ast                 *)
(***************************************************************************)
\* a string rendered as repr does, between quotes
object_to_string_quoted(obj) ==
    IF obj.t = "str" THEN <<"'">> \o obj.s \o <<"'">> ELSE py_str(obj)

\* the 'df.columns' branch is not modelled: no block above evaluates it
object_to_string(obj) ==
    IF obj.t = "str" THEN obj.s
    ELSE IF obj.t = "table" /\ obj.n = 0 THEN EMPTY_DATAFRAME
    ELSE py_str(obj)

\* the statement the last line is evaluated as, after a leading print( is
\* cut away (execute.py:95-96): print(e) becomes e
strip_print(st) ==
    IF st.op = "expr" /\ st.value.e = "print" THEN S_expr(st.value.a) ELSE st

\* "{}: {}".format(type(e).__name__, str(e))
error_text(x) == x.kind \o COLON_SPACE \o x.msg

\* execute.py:101-111  the last statement: eval, and exec when eval raises
\* an Exception (a statement that is no expression raises SyntaxError
\* before it runs).  [locals, out, exc, ran], out being the output of those
\* lines and ran the calls of eval and exec made
eval_last(last, locals) ==
    IF last = <<>>
    THEN \* eval('') raises SyntaxError, exec('') does nothing
         [locals |-> locals, out |-> <<>>, exc |-> NoExc, ran |-> <<>>]
    ELSE Bind(strip_print(last[1]), LAMBDA st :
            Bind(IF st.op = "expr" THEN eval_expr(st.value, locals)
                 ELSE [val |-> NoneVal, out |-> <<>>, locals |-> locals,
                       exc |-> Exc(SYNTAX_ERROR, SYNTAX_MSG)], LAMBDA r :
                IF ~Raised(r.exc)
                THEN [locals |-> r.locals,
                      out |-> IF r.val.t # "none" THEN object_to_string(r.val) ELSE r.out,
                      exc |-> NoExc, ran |-> <<Ran("eval", locals, r)>>]
                ELSE IF ~r.exc.is_exception
                THEN [locals |-> r.locals, out |-> r.out, exc |-> r.exc,
                      ran |-> <<Ran("eval", locals, r)>>]
                ELSE \* io_buffer2 keeps what the failed eval printed, and
                     \* custom_locals what it bound
                     Bind(exec_stmt(st, r.locals), LAMBDA x :
                        [locals |-> x.locals, out |-> r.out \o x.out, exc |-> x.exc,
                         ran |-> <<Ran("eval", locals, r), Ran("exec", r.locals, x)>>])))

\* a failure that hands back an empty memory
repl_failure_forgets(x, memory) ==
    IF x.is_exception
    THEN [observation |-> error_text(x), memory |-> EmptyDict, exc |-> NoExc]
    ELSE [observation |-> <<>>, memory |-> EmptyDict, exc |-> x]

\* execute.py:119-120, or the exception leaving python_repl_ast when it is
\* not an Exception
repl_failure(x, memory) ==
    IF x.is_exception
    THEN [observation |-> error_text(x), memory |-> memory, exc |-> NoExc]
    ELSE [observation |-> <<>>, memory |-> memory, exc |-> x]

\* execute.py:86-88
newline_terminated(output1) ==
    IF output1 # <<>> /\ output1[Len(output1)] # "\n" THEN output1 \o NL ELSE output1

\* execute.py:114  memory.update(custom_locals)
memory_update(memory, locals) == dict_merge(memory, locals)

\* [observation, memory, exc, ran]: the pair returned, or the exception
\* that leaves the function (exc raised, nothing returned); ran is the
\* sequence of the exec and eval calls made, each [stmt, call], stmt being
\* the position of the statement in the block
python_repl_ast(code, custom_locals, memory) ==
    LET calls(ran, at) ==
            [j \in DOMAIN ran |-> [stmt |-> IF at = 0 THEN j ELSE at, call |-> ran[j]]]
        returns(r, ran) ==
            [observation |-> r.observation, memory |-> r.memory, exc |-> r.exc,
             ran |-> ran]
    IN
    Bind(ast_parse(code), LAMBDA tree :
        IF ~tree.ok THEN returns(repl_failure(tree.error, memory), <<>>)
        ELSE Bind(Len(tree.body), LAMBDA n :
             \* tree.body[:-1]
             Bind(exec_block(IF n = 0 THEN <<>> ELSE SubSeq(tree.body, 1, n - 1),
                             dict_merge(custom_locals, memory)), LAMBDA first :
                IF Raised(first.exc)
                THEN returns(repl_failure(first.exc, memory),
                             calls(first.ran, 0))
                ELSE \* tree.body[-1:]
                     Bind(eval_last(IF n = 0 THEN <<>> ELSE SubSeq(tree.body, n, n),
                                    first.locals), LAMBDA last :
                     Bind(calls(first.ran, 0)
                            \o calls(last.ran, n), LAMBDA ran :
                        IF Raised(last.exc)
                        THEN returns(repl_failure(last.exc, memory), ran)
                        ELSE returns([observation |->
                                        newline_terminated(first.out) \o last.out,
                                      memory |-> memory_update(memory, last.locals),
                                      exc |-> NoExc], ran))))))
(***************************************************************************)
(* src/agent/model.py: Model                                               *)
(***************************************************************************)
\* Model.get_context_limit: the limit of the default model
context_limit == 16385

\* One character that stands for a passage of text of PassageTokens tokens,
\* so that a prompt can reach the context limit.
Passage == "#"

PassageTokens == context_limit - Len(THOUGHT)

\* Model.get_token_count: 0 for empty text, else len(tokenizer.encode(text)).
\* The tokenizer is modelled as one token a character.
get_token_count(prompt) ==
    IF prompt = <<>> THEN 0
    ELSE Len(prompt)
           + (PassageTokens - 1) * Cardinality({k \in 1..Len(prompt) : prompt[k] = Passage})

\* What the API client does on one call: it returns content (a text or
\* None), or raises.
ApiText(s) == [kind |-> "content", is_none |-> FALSE, s |-> s]

ApiNone == [kind |-> "content", is_none |-> TRUE, s |-> <<>>]

ApiRaises(msg) == [kind |-> "raises", is_none |-> FALSE, s |-> msg]

\* Model.query
Model_query(prompt, api) ==
    IF prompt = <<>> THEN CONTENTS_EMPTY
    ELSE IF api.kind = "raises" THEN API_CALL_FAILED \o api.s
    ELSE IF api.is_none THEN EMPTY_RESPONSE
    ELSE api.s

(***************************************************************************)
(* src/agent/agent.py: TableAgent                                          *)
(***************************************************************************)
\* is_terminal without the .lower()
is_terminal_case_sensitive(text) == str_in(FINAL_ANSWER_MARKER, text)

\* TableAgent.is_terminal
is_terminal(text) == str_in(FINAL_ANSWER_MARKER, str_lower(text))

\* query without the test of the prompt length
TableAgent_query_unchecked(prompt, api) ==
    Bind(Model_query(prompt, api), LAMBDA response_text :
        [is_none |-> FALSE, text |-> response_text, called |-> TRUE,
         input_tokens |-> get_token_count(prompt),
         output_tokens |-> get_token_count(response_text)])

\* TableAgent.query: [is_none, text, called, input_tokens, output_tokens]
TableAgent_query(prompt, api) ==
    Bind(get_token_count(prompt), LAMBDA input_token_count :
        IF input_token_count > context_limit
        THEN [is_none |-> FALSE,
              text |-> PROMPT_LENGTH \o int_str(input_token_count) \o IS_TOO_LONG,
              called |-> FALSE, input_tokens |-> 0, output_tokens |-> 0]
        ELSE Bind(Model_query(prompt, api), LAMBDA response_text :
                [is_none |-> FALSE, text |-> response_text, called |-> TRUE,
                 input_tokens |-> input_token_count,
                 output_tokens |-> get_token_count(response_text)]))

\* the failure test with == where the code has startswith
is_error_text_equal(text) == text = ERROR_PREFIX

\* agent.py:205  the model-call failure test
is_error_text(text) == str_startswith(text, ERROR_PREFIX)

\* agent.py:221  the action test
has_action(text) == str_in(ACTION_MARKER, text)

\* a turn without an action reported as a success
no_action_observation_success == SUCCESS_MARKER

\* agent.py:222  the observation of a turn without an action
no_action_observation == NO_ACTION

\* the iteration count one short
turn_number_zero_based(i) == i

\* agent.py:203, 208, 218  the iteration count of the turn with index i
turn_number(i) == i + 1

\* agent.py:225  the code of the action
action_code(text) == Bind(str_strip(split_last(text, ACTION_MARKER)), parse_code_from_string)

\* agent.py:226-231  python_repl_ast under the loop's handlers:
\* [observation, memory, exc]
run_action(code, df, memory) ==
    Bind(python_repl_ast(code, [k \in {NAME_df} |-> df], memory), LAMBDA r :
        IF ~Raised(r.exc) THEN r
        ELSE IF r.exc.kind = INDEX_ERROR
        THEN [observation |-> INDEX_OUT_OF_BOUNDS \o r.exc.msg,
              memory |-> memory, exc |-> NoExc]
        ELSE IF r.exc.is_exception
        THEN [observation |-> ERROR_SPACE \o r.exc.msg, memory |-> memory, exc |-> NoExc]
        ELSE r)

\* an observation handed on as the evaluator returned it
limit_observation_unlimited(observation) == observation

\* agent.py:233-236
limit_observation(observation) ==
    IF get_token_count(observation) > context_limit THEN OBSERVATION_TOO_LONG
    ELSE IF observation = <<>> THEN SUCCESS_MARKER
    ELSE observation

\* agent.py:239-240
lead_newline(observation) ==
    IF str_in(NL, observation) THEN NL \o observation ELSE observation

\* a turn that records no observation
observation_segment_missing(observation) == <<>>

\* agent.py:242  what a turn appends to the transcript after the model text
observation_segment(observation) == OBSERVATION_HEAD \o observation \o NL

\* agent.py:248  the answer taken from the last model text
extract_answer(text) == str_strip(split_first(split_last(text, ANSWER_MARKER), NL))

\* agent.py:200-242  what one iteration does with the query result q:
\* [outcome, text, code, observation, memory, exc]
solver_turn(q, df, memory) ==
    LET turn(outcome, stripped, code, observation, mem, exc) ==
            [outcome |-> outcome, text |-> stripped, code |-> code,
             observation |-> observation, memory |-> mem, exc |-> exc]
    IN  IF q.is_none \/ is_error_text(q.text)
        THEN turn("failed", <<>>, <<>>, <<>>, memory, NoExc)
        ELSE Bind(str_strip(q.text), LAMBDA stripped :
            IF is_terminal(stripped)
            THEN turn("terminal", stripped, <<>>, <<>>, memory, NoExc)
            ELSE IF ~has_action(stripped)
            THEN turn("no_action", stripped, <<>>,
                      lead_newline(no_action_observation), memory, NoExc)
            ELSE Bind(action_code(stripped), LAMBDA code :
                 Bind(run_action(code, df, memory), LAMBDA r :
                    IF Raised(r.exc)
                    THEN turn("escaped", stripped, code, <<>>, memory, r.exc)
                    ELSE Bind(limit_observation(r.observation), LAMBDA observation :
                            turn("action", stripped, code, lead_newline(observation),
                                 r.memory, NoExc)))))


(***************************************************************************)
(* src/agent/retriever.py: Retriever.  A table is [ncol, rows], rows being *)
(* a sequence of rows of cells; a cell is a one-character string, or NaN.  *)
(* Row and column ids count from 0 as in the code.                         *)
(***************************************************************************)
DataFrame(ncol, rows) == [ncol |-> ncol, rows |-> rows]

\* a missing cell; str(cell) is 'nan'
NaN == "nan"

\* df.columns: the tables of the model have the headers c0, c1, ...
df_columns(df) == [c \in 1..df.ncol |-> <<"c">> \o int_str(c - 1)]

\* the cells of column c (from 1), top down
df_column(df, c) == [r \in 1..Len(df.rows) |-> df.rows[r][c]]

\* len(df.columns), len(df)
df_ncol(df) == df.ncol

df_nrow(df) == Len(df.rows)

\* df.iloc[:max_row]
iloc_head(df, max_row) ==
    [df EXCEPT !.rows = SubSeq(df.rows, 1, IF max_row < Len(df.rows) THEN max_row
                                            ELSE Len(df.rows))]

\* max_row without the floor of one row
init_max_row_no_floor(mec, ncol) == (mec \div 2) \div ncol

\* retriever.py:70  max(1, self.max_encode_cell // 2 // len(self.df.columns))
init_max_row(mec, ncol) ==
    IF (mec \div 2) \div ncol > 1 THEN (mec \div 2) \div ncol ELSE 1

\* '|'.join(cells)
RECURSIVE join_cells(_)
join_cells(cells) ==
    IF cells = <<>> THEN <<>>
    ELSE IF Len(cells) = 1 THEN <<cells[1]>>
    ELSE <<cells[1], "|">> \o join_cells(Tail(cells))

\* Document(page_content=..., metadata={key: id})
Document(page_content, key, id) ==
    [page_content |-> page_content, metadata |-> [n \in {key} |-> id]]

\* retriever.py:173-180
build_row_corpus(df) ==
    [r \in 1..df_nrow(df) |-> Document(join_cells(df.rows[r]), "row_id", r - 1)]

\* retriever.py:182-189
build_column_corpus(df) ==
    [c \in 1..df_ncol(df) |-> Document(join_cells(df_column(df, c)), "col_id", c - 1)]

\* str(column.dtype) of a column whose cells were read as text and then put
\* through infer_dtype: whole numbers, numbers with gaps, or objects
column_dtype(column) ==
    IF \E r \in DOMAIN column :
            column[r] # NaN /\ \A d \in DOMAIN Digits : Digits[d] # column[r]
    THEN DTYPE_object
    ELSE IF \E r \in DOMAIN column : column[r] = NaN THEN DTYPE_float64
    ELSE DTYPE_int64

\* retriever.py:135-140
schema_text(col_name, column) ==
    COLUMN_HEAD \o col_name
        \o TYPE_HEAD \o column_dtype(column)
        \o UNIQUE_HEAD
        \o int_str(Cardinality({column[r] : r \in DOMAIN column} \ {NaN}))
        \o NON_NULL_HEAD
        \o int_str(Cardinality({r \in DOMAIN column : column[r] # NaN}))
        \o NULL_HEAD
        \o int_str(Cardinality({r \in DOMAIN column : column[r] = NaN}))

\* retriever.py:122-152
build_schema_corpus(df) ==
    [c \in 1..df_ncol(df) |->
        Bind(schema_text(df_columns(df)[c], df_column(df, c)), LAMBDA text :
            [page_content |-> text,
             metadata |-> [col_id |-> c - 1, col_name |-> df_columns(df)[c],
                           result_text |-> text]])]

\* the positions of a table, row by row
cell_positions(df) ==
    [p \in 1..(df_nrow(df) * df_ncol(df)) |->
        [r |-> ((p - 1) \div df_ncol(df)) + 1, c |-> ((p - 1) % df_ncol(df)) + 1]]

\* a cell document for every cell, the missing and the blank ones too
build_cell_corpus_every_cell(df) ==
    [j \in DOMAIN cell_positions(df) |->
        Bind(cell_positions(df)[j], LAMBDA at :
            [page_content |-> str_strip(<<df.rows[at.r][at.c]>>),
             metadata |-> [row_id |-> at.r - 1, col_id |-> at.c - 1,
                           col_name |-> df_columns(df)[at.c]]])]

\* retriever.py:154-171
build_cell_corpus(df) ==
    LET kept == SelectSeq(cell_positions(df), LAMBDA at :
                    /\ df.rows[at.r][at.c] # NaN
                    /\ str_strip(<<df.rows[at.r][at.c]>>) # <<>>)
    IN  [j \in DOMAIN kept |->
            [page_content |-> str_strip(<<df.rows[kept[j].r][kept[j].c]>>),
             metadata |-> [row_id |-> kept[j].r - 1, col_id |-> kept[j].c - 1,
                           col_name |-> df_columns(df)[kept[j].c]]]]

\* retriever.py:109-120
get_docs(data_type, df) ==
    CASE data_type = "schema" -> build_schema_corpus(df)
      [] data_type = "cell" -> build_cell_corpus(df)
      [] data_type = "row" -> build_row_corpus(df)
      [] data_type = "column" -> build_column_corpus(df)

\* the key of a persisted index without the kind of its documents
db_dir_without_kind(data_type, mec, table_id) ==
    <<"_", "d", "b", "_">> \o int_str(mec) \o <<"_">> \o table_id

\* retriever.py:81  f'{data_type}_db_{self.max_encode_cell}_' + table_id,
\* the directory under self.db_dir
db_dir(data_type, mec, table_id) ==
    (CASE data_type = "schema" -> <<"s", "c", "h", "e", "m", "a">>
       [] data_type = "cell" -> <<"c", "e", "l", "l">>
       [] data_type = "row" -> <<"r", "o", "w">>
       [] data_type = "column" -> <<"c", "o", "l", "u", "m", "n">>)
        \o <<"_", "d", "b", "_">> \o int_str(mec) \o <<"_">> \o table_id

(***************************************************************************)
(* The vector store and the rankers the retriever delegates to.  The       *)
(* embedding model is stood for by the sum of the digits of a text, the    *)
(* lexical score by equality of the query with the document's one token    *)
(* (a row or column text has no white space).                              *)
(***************************************************************************)
RECURSIVE embed_text(_)
embed_text(t) ==
    IF t = <<>> THEN 0
    ELSE (IF \E d \in 1..10 : Digits[d] = t[1]
          THEN (CHOOSE d \in 1..10 : Digits[d] = t[1]) - 1 ELSE 0)
         + embed_text(Tail(t))

abs_diff(a, b) == IF a < b THEN b - a ELSE a - b

\* the positions of cost, a sequence of numbers, from the least cost on,
\* equal costs in the order before(j, m) says
ranked(cost, before(_, _)) ==
    LET place(j) ==
            1 + Cardinality({m \in DOMAIN cost :
                    cost[m] < cost[j] \/ (cost[m] = cost[j] /\ before(m, j))})
    IN  [p \in DOMAIN cost |-> CHOOSE j \in DOMAIN cost : place(j) = p]

first_n(s, n) == SubSeq(s, 1, IF n < Len(s) THEN n ELSE Len(s))

\* FAISS.from_documents(docs, embedder): a vector for each document
FAISS_from_documents(docs) ==
    [vectors |-> [j \in DOMAIN docs |-> embed_text(docs[j].page_content)],
     docstore |-> docs]

\* db.as_retriever(search_kwargs={'k': k}).invoke(query): the k nearest
\* documents, nearest first
similarity_search(db, query, k) ==
    LET order == ranked([j \in DOMAIN db.vectors |->
                            abs_diff(db.vectors[j], embed_text(query))],
                        LAMBDA a, b : a < b)
    IN  first_n([p \in DOMAIN order |-> db.docstore[order[p]]], k)

\* BM25Retriever.from_documents(docs) with k, invoked: the k best scores,
\* best first
bm25_search(docs, query, k) ==
    LET order == ranked([j \in DOMAIN docs |->
                            IF docs[j].page_content = query THEN 0 ELSE 1],
                        LAMBDA a, b : a > b)
    IN  first_n([p \in DOMAIN order |-> docs[order[p]]], k)

\* the documents of a sequence without those whose page_content came earlier
RECURSIVE unique_by_content(_)
unique_by_content(docs) ==
    IF docs = <<>> THEN <<>>
    ELSE Bind(unique_by_content(SubSeq(docs, 1, Len(docs) - 1)), LAMBDA u :
            IF \E j \in DOMAIN u : u[j].page_content = docs[Len(docs)].page_content
            THEN u ELSE Append(u, docs[Len(docs)]))

\* 61 * 62 * 63 * 64 * 65: the reciprocal ranks 1/(60 + rank), rank 1..5,
\* as whole numbers
RankScale == 991186560

\* EnsembleRetriever(retrievers=[a, b], weights=[0.5, 0.5]): weighted
\* reciprocal rank fusion of the two result lists
ensemble(list_a, list_b) ==
    LET docs == unique_by_content(list_a \o list_b)
        rrf(list, d) ==
            IF \E j \in DOMAIN list : list[j].page_content = d.page_content
            THEN RankScale \div
                    (60 + (CHOOSE j \in DOMAIN list :
                              /\ list[j].page_content = d.page_content
                              /\ \A m \in 1..(j - 1) :
                                    list[m].page_content # d.page_content))
            ELSE 0
        order == ranked([j \in DOMAIN docs |->
                            0 - (rrf(list_a, docs[j]) + rrf(list_b, docs[j]))],
                        LAMBDA a, b : a < b)
    IN  [p \in DOMAIN order |-> docs[order[p]]]

\* a test that finds no directory
path_exists_never(entry) == FALSE

\* retriever.py:82  os.path.exists(db_dir)
path_exists(entry) == entry.dir

\* what get_retriever returns (retriever.py:92-107): [m, k, db, docs], db
\* the vector store and docs the BM25 corpus, each None in the mode without it
NoneIndex == [vectors |-> <<>>, docstore |-> <<>>]

MakeRetriever(m, k, db, docs) == [m |-> m, k |-> k, db |-> db, docs |-> docs]

\* retriever.invoke(query)
invoke(retriever, query) ==
    CASE retriever.m = "embed" -> similarity_search(retriever.db, query, retriever.k)
      [] retriever.m = "bm25" -> bm25_search(retriever.docs, query, retriever.k)
      [] OTHER -> ensemble(similarity_search(retriever.db, query, retriever.k),
                           bm25_search(retriever.docs, query, retriever.k))

\* sorted([doc.metadata[key] for doc in results]): [ok, ids], not ok when a
\* document has no such key (KeyError)
sorted_ids(results, key) ==
    IF \E j \in DOMAIN results : key \notin DOMAIN results[j].metadata
    THEN [ok |-> FALSE, ids |-> <<>>]
    ELSE [ok |-> TRUE,
          ids |-> SortSeq([j \in DOMAIN results |-> results[j].metadata[key]],
                          LAMBDA a, b : a < b)]

\* retriever.py:207-215  [raised, row_ids, col_ids, table]: the sub-table
\* self.df.iloc[row_ids, col_ids], or the exception that leaves the method
sample_rows_and_columns(row_retriever, column_retriever, df, query) ==
    LET rows == sorted_ids(invoke(row_retriever, query), "row_id")
        cols == sorted_ids(invoke(column_retriever, query), "col_id")
        failed(kind) == [raised |-> kind, row_ids |-> rows.ids, col_ids |-> cols.ids,
                         table |-> DataFrame(0, <<>>)]
    IN  IF ~rows.ok \/ ~cols.ok THEN failed("KeyError")
        ELSE IF \/ \E j \in DOMAIN rows.ids : rows.ids[j] >= df_nrow(df)
                \/ \E j \in DOMAIN cols.ids : cols.ids[j] >= df_ncol(df)
        THEN failed("IndexError")
        ELSE [raised |-> "none", row_ids |-> rows.ids, col_ids |-> cols.ids,
              table |-> DataFrame(Len(cols.ids),
                            [r \in DOMAIN rows.ids |->
                                [c \in DOMAIN cols.ids |->
                                    df.rows[rows.ids[r] + 1][cols.ids[c] + 1]]])]
(***************************************************************************)
(* src/utils/utils.py: read_json, is_numeric                               *)
(***************************************************************************)
\* JSON values: a string, a number, null, and an array of values
JStr(s) == [j |-> "str", s |-> s, n |-> 0]

JNum(n) == [j |-> "num", s |-> <<>>, n |-> n]

JNull == [j |-> "null", s |-> <<>>, n |-> 0]

\* json.loads on the texts above: [ok, is_list, items], not ok for the
\* JSONDecodeError every other text raises
json_loads(text) ==
    LET array(items) == [ok |-> TRUE, is_list |-> TRUE, items |-> items]
    IN  CASE text = JSON_ab -> array(<<JStr(KEY_a), JStr(KEY_b)>>)
          [] text = JSON_a -> array(<<JStr(KEY_a)>>)
          [] text = JSON_aa -> array(<<JStr(KEY_a), JStr(KEY_a)>>)
          [] text = JSON_a1 -> array(<<JStr(KEY_a), JStr(KEY_1)>>)
          [] text = JSON_number -> array(<<JNum(1)>>)
          [] text = JSON_null_a -> array(<<JNull, JStr(KEY_a)>>)
          [] text = JSON_empty -> array(<<>>)
          [] text = JSON_scalar -> [ok |-> TRUE, is_list |-> FALSE, items |-> <<>>]
          [] OTHER -> [ok |-> FALSE, is_list |-> FALSE, items |-> <<>>]

\* utils.py:28-39
read_json(text) == json_loads(parse_code_from_string(text))

\* float(s) on a string: white space around, a sign, then digits with at
\* most one point, or one of the words nan, inf, infinity (exponents and
\* digit separators are not among the keywords of the model)
float_parses(s) ==
    LET t == str_strip(s)
        u == IF t # <<>> /\ t[1] \in {"+", "-"} THEN Tail(t) ELSE t
        digits == {k \in DOMAIN u : \E d \in DOMAIN Digits : Digits[d] = u[k]}
        points == {k \in DOMAIN u : u[k] = "."}
    IN  \/ /\ digits # {}
           /\ digits \cup points = DOMAIN u
           /\ Cardinality(points) <= 1
        \/ str_lower(u) \in {WORD_nan, WORD_inf, WORD_infinity}

\* utils.py:42-56  float(s) raises TypeError on None, a list or a dict
is_numeric_never(s) == FALSE

is_numeric(s) ==
    CASE s.j = "num" -> TRUE
      [] s.j = "str" -> float_parses(s.s)
      [] OTHER -> FALSE

(***************************************************************************)
(* src/agent/rag_agent.py: the planners of TableRAGAgent                   *)
(***************************************************************************)
\* s[a:b], a and b counted from 0, a negative a counted from the end
py_slice(s, a, b) ==
    LET start == IF a >= 0 THEN a ELSE IF Len(s) + a > 0 THEN Len(s) + a ELSE 0
        stop == IF b < Len(s) THEN b ELSE Len(s)
    IN  SubSeq(s, start + 1, stop)

\* rag_agent.py:55, 108  text[text.find('['):text.find(']')+1]
bracket_slice(text) ==
    py_slice(text, str_find(text, LEFT_BRACKET, 1) - 1, str_find(text, RIGHT_BRACKET, 1))

\* rag_agent.py:54-62, 107-115  the try block of one attempt: [ok, items]
attempt_parse(text) ==
    Bind(read_json(bracket_slice(text)), LAMBDA parsed :
        IF parsed.ok /\ parsed.is_list THEN [ok |-> TRUE, items |-> parsed.items]
        ELSE [ok |-> FALSE, items |-> <<>>])

\* an attempt count one more than the default
max_attempt_more == 2 + 2

\* rag_agent.py:34, 87  max_attempt = 3
max_attempt == 3

\* a test that takes no query result for a failure
is_query_failure_never(text) == FALSE

\* rag_agent.py:49, 102
is_query_failure(text) == str_startswith(text, ERROR_PREFIX)

\* retriever.py:191-200, 202-205  retrieve_schema and retrieve_cell:
\* [raised, docs].  A query that is no string makes the retriever raise
\* (AttributeError in BM25's query.split(), TypeError in an embedder).
retrieve(kind, retriever, query) ==
    IF query.j # "str" THEN [raised |-> TRUE, docs |-> <<>>]
    ELSE Bind(invoke(retriever, query.s), LAMBDA results :
            [raised |-> FALSE,
             docs |-> [k \in DOMAIN results |->
                        IF kind = "schema" THEN results[k].metadata.result_text
                        ELSE results[k].page_content]])

\* rag_agent.py:64-66, 118-120  the loop over the queries:
\* [raised, looked, found], looked being the queries put to the index and
\* found the set retrieve_docs
RECURSIVE retrieve_all(_, _, _)
retrieve_all(kind, retriever, queries) ==
    IF queries = <<>> THEN [raised |-> FALSE, looked |-> <<>>, found |-> {}]
    ELSE Bind(retrieve_all(kind, retriever, SubSeq(queries, 1, Len(queries) - 1)),
              LAMBDA before :
            IF before.raised THEN before
            ELSE Bind(retrieve(kind, retriever, queries[Len(queries)]), LAMBDA r :
                    [raised |-> r.raised,
                     looked |-> Append(before.looked, queries[Len(queries)]),
                     found |-> before.found \cup {r.docs[k] : k \in DOMAIN r.docs}]))

\* sep.join(items), items being texts
RECURSIVE join_texts(_, _)
join_texts(sep, items) ==
    IF items = <<>> THEN <<>>
    ELSE IF Len(items) = 1 THEN items[1]
    ELSE items[1] \o sep \o join_texts(sep, Tail(items))

\* list(retrieve_docs): the members of the set, in each order a set may
\* be listed in
listings(found) ==
    {f \in [1..Cardinality(found) -> found] :
        \A a, b \in 1..Cardinality(found) : a # b => f[a] # f[b]}

\* rag_agent.py:116  the numeric keywords are dropped from the cell queries
plan_queries(kind, queries) ==
    IF kind = "cell" THEN SelectSeq(queries, LAMBDA cell : ~is_numeric(cell))
    ELSE queries

\* rag_agent.py:68-70, 122-124
result_text(kind, queries, docs) ==
    (IF kind = "schema" THEN SCHEMA_QUERIES_HEAD ELSE CELL_QUERIES_HEAD)
        \o join_texts(COMMA_SPACE, [k \in DOMAIN queries |-> queries[k].s]) \o NL
        \o (IF kind = "schema" THEN SCHEMA_RESULTS_HEAD ELSE CELL_RESULTS_HEAD)
        \o join_texts(NL, docs)

\* what a planner has returned: nothing yet, a triple, or an exception
NoPlan ==
    [done |-> FALSE, raised |-> FALSE, result_text |-> <<>>, queries |-> <<>>,
     docs |-> <<>>]

\* rag_agent.py:52, 105
FailedPlan(kind) ==
    [done |-> TRUE, raised |-> FALSE,
     result_text |-> IF kind = "schema" THEN SCHEMA_FAILED ELSE CELL_FAILED,
     queries |-> <<>>, docs |-> <<>>]

RaisedPlan ==
    [done |-> TRUE, raised |-> TRUE, result_text |-> <<>>, queries |-> <<>>,
     docs |-> <<>>]

\* rag_agent.py:71, 125
ReturnedPlan(kind, queries, docs) ==
    [done |-> TRUE, raised |-> FALSE, result_text |-> result_text(kind, queries, docs),
     queries |-> queries, docs |-> docs]

(***************************************************************************)
(* src/agent/agent.py: TableAgent.run                                      *)
(***************************************************************************)
\* a run that refuses no table
table_too_large_never(agent, df, k) == FALSE

\* agent.py:297
table_too_large(agent, df, k) ==
    \/ agent = "PyReAct" /\ 3 * df_nrow(df) * df_ncol(df) > context_limit
    \/ agent = "RandSampling" /\ 3 * k * df_ncol(df) > context_limit

\* agent.py:324, rag_agent.py:201-214  get_prompt: the fixed text of the
\* templates and the rendering of the table are left out, the prompt is the
\* query followed by the retrieval results
get_prompt(query, results) == query \o results

(***************************************************************************)
(* The inputs of a session.                                                *)
(***************************************************************************)
\* the largest max_depth explored (TableAgent's default is 5, agent.py:50)
MaxDepth == 3

\* the number of solver_loop calls made on one agent
MaxSessions == 2

\* the max_depth of an agent that runs several sessions
SessionDepth == 2

\* the number of rows of the table handed to solver_loop
TableRows == 5

df_arg == TableVal(TableRows)

\* initial prompts: a short one, one that fills the context limit once the
\* first 'Thought: ' is appended, and one that is over the limit
Prompts == {<<"Q">>, <<Passage>>, <<Passage, "Q">>}

TEXT_action(code) == ACTION_MARKER \o <<" ">> \o code

\* what the API client may do on a call
ApiOutcomes ==
    {ApiNone, ApiRaises(TIMEOUT), ApiText(<<>>),
     ApiText(TEXT_final), ApiText(TEXT_final_lower), ApiText(TEXT_final_with_action),
     ApiText(TEXT_no_action),
     ApiText(TEXT_action(CODE_assign_x)),
     ApiText(TEXT_action(BACKTICK \o CODE_read_x \o BACKTICK)),
     ApiText(TEXT_action(FENCE_python \o CODE_assign_then_fail \o FENCE_end)),
     ApiText(TEXT_action(CODE_iloc)),
     ApiText(TEXT_action(CODE_exit)),
     ApiText(TEXT_action(CODE_bad_syntax)),
     ApiText(TEXT_action(CODE_rebind_df)),
     ApiText(TEXT_action(CODE_len_df)),
     ApiText(TEXT_action(CODE_print_then_add)),
     ApiText(TEXT_action(CODE_del_x)),
     ApiText(TEXT_action(CODE_print_x)),
     ApiText(TEXT_action(CODE_add)),
     ApiText(TEXT_action(CODE_print_print)),
     ApiText(TEXT_action(CODE_two_passages)),
     ApiText(TEXT_action(CODE_print_passage)),
     ApiText(TEXT_action(CODE_count_twice)),
     ApiText(TEXT_action(TRIPLE_BACKTICK \o CODE_len_df \o TRIPLE_BACKTICK))}

(***************************************************************************)
(* The state of one solver_loop session (agent.py:176-252).                *)
(***************************************************************************)
VARIABLES
    max_depth,      \* self.max_depth
    init_prompt,    \* the prompt argument
    pc,             \* "loop", "break" (left the loop on a terminal text),
                    \* "done" (returned), "raised" (an exception left the call)
    i,              \* the index of the next iteration of the for loop
    text,           \* the local text, bound once text_bound
    text_bound,
    solution,       \* the transcript
    memory,         \* the execution memory
    n_iter,
    result,         \* what solver_loop returned, once pc = "done"
    total_input_token_count,
    total_output_token_count,
    turns,          \* history: one record for each turn of this session
    session,        \* history: the number of this solver_loop call
    earlier         \* history: the names bound in the memories of earlier calls

(***************************************************************************)
(* The state of the retrievers (retriever.py), one Retriever for each      *)
(* worker process, and of the directory db_dir they share.                 *)
(***************************************************************************)
VARIABLES
    mode,             \* self.mode: 'bm25', 'embed' or 'hybrid'
    top_k,            \* self.top_k
    max_encode_cell,  \* self.max_encode_cell
    workers,          \* the worker processes of the run
    wpc,              \* for each worker, where it is in init_retriever
    wcall,            \* the table id, the kinds still to get, the store built
    held,             \* self.df
    retrievers,       \* self.row_retriever, self.column_retriever
    disk,             \* the persisted indexes, by directory name
    sampled,          \* what the last sample_rows_and_columns returned
    ncalls,           \* history: the number of init_retriever calls made
    saves,            \* history: the save_local calls made on each directory
    embeds,           \* history: the FAISS.from_documents calls for each directory
    source,           \* history: the table each directory's index was built from
    origin            \* history: how each retriever came by its store

(***************************************************************************)
(* The state of one run() of an agent (agent.py:267-352,                   *)
(* rag_agent.py:141-242).                                                  *)
(***************************************************************************)
VARIABLES
    agent_type,        \* self.agent_type
    data,              \* the table of the data item
    question,          \* the query of the data item
    stage,             \* where run() is: "idle", "called", "schema", "cell",
                       \* "solve", "solver", "logged", "raised"
    planning,          \* the locals of each planner
    asked,             \* history: the results of the planners' query() calls
    lookups,           \* history: the queries put to the schema and cell indexes
    plans,             \* what each planner returned
    schema_retriever,  \* retriever.schema_retriever
    cell_retriever,    \* retriever.cell_retriever
    logged             \* what run() wrote to the log

avars ==
    <<agent_type, data, question, stage, planning, asked, lookups, plans,
      schema_retriever, cell_retriever, logged>>

rvars ==
    <<mode, top_k, max_encode_cell, workers, wpc, wcall, held, retrievers, disk,
      sampled, ncalls, saves, embeds, source, origin>>

svars ==
    <<max_depth, init_prompt, pc, i, text, text_bound, solution, memory, n_iter,
      result, total_input_token_count, total_output_token_count, turns, session,
      earlier>>

vars == <<svars, rvars, avars>>

NoResult ==
    [returned |-> FALSE, answer |-> <<>>, n_iter |-> 0, solution |-> <<>>, exc |-> NoExc]

Return(answer, n, sol) ==
    [returned |-> TRUE, answer |-> answer, n_iter |-> n, solution |-> sol, exc |-> NoExc]

\* the largest number of worker processes
NumWorkers == 2

\* the number of init_retriever calls of a run
MaxCalls == 2

\* the tables of the data set, and the ids they are indexed under
TABLE_A == DataFrame(2, << <<"1", "2">>, <<"3", "4">>, <<"5", "6">> >>)

TABLE_B == DataFrame(2, << <<"7", "8">> >>)

TABLE_C == DataFrame(1, << <<"1">>, <<"3">> >>)

Tables == {TABLE_A, TABLE_B, TABLE_C}

TableIds == {<<"t", "e", "s", "t">>, <<"t", "2">>}

Kinds == {"row", "column"}

\* the questions put to the retrievers
Queries == {<<"1">>, <<"3", "|", "4">>, <<"9">>}

NoTable == DataFrame(0, <<>>)

NoRetriever == MakeRetriever("none", 0, NoneIndex, <<>>)

NoSample == [raised |-> "not called", row_ids |-> <<>>, col_ids |-> <<>>, table |-> NoTable]

\* a directory of db_dir: whether it exists, and its two files
NoEntry ==
    [dir |-> FALSE, has_faiss |-> FALSE, faiss |-> <<>>, has_pkl |-> FALSE, pkl |-> <<>>]

NoCall == [table_id |-> <<>>, table |-> NoTable, todo |-> <<>>, db |-> NoneIndex]

\* the directories the run may use
Directories(mec) == {db_dir(d, mec, t) : d \in Kinds, t \in TableIds}

\* What Retriever.__init__ leaves (retriever.py:32-45), for the workers ws,
\* over an empty db_dir.
RetrieverInit(ws) ==
    /\ workers = ws
    /\ wpc = [w \in 1..NumWorkers |-> "idle"]
    /\ wcall = [w \in 1..NumWorkers |-> NoCall]
    /\ held = [w \in 1..NumWorkers |-> NoTable]
    /\ retrievers = [w \in 1..NumWorkers |-> [d \in Kinds |-> NoRetriever]]
    /\ disk = [p \in Directories(max_encode_cell) |-> NoEntry]
    /\ sampled = [w \in 1..NumWorkers |-> NoSample]
    /\ ncalls = 0
    /\ saves = [p \in Directories(max_encode_cell) |-> 0]
    /\ embeds = [p \in Directories(max_encode_cell) |-> 0]
    /\ source = [p \in Directories(max_encode_cell) |-> NoTable]
    /\ origin = [w \in 1..NumWorkers |-> [d \in Kinds |-> "none"]]

\* the planners of a TableRAG run
PlanKinds == {"schema", "cell"}

\* the locals of a planner before its first attempt: the attempts made,
\* whether one parsed (the break), and the queries it gave
NoPlanning == [attempt |-> 0, parsed |-> FALSE, queries |-> <<>>]

NoLog ==
    [written |-> FALSE, answer |-> <<>>, solution |-> <<>>, n_iter |-> 0,
     has_text |-> FALSE, text |-> <<>>]

\* no run() has been called
AgentIdle ==
    /\ agent_type = "none"
    /\ data = NoTable
    /\ question = <<>>
    /\ stage = "idle"
    /\ planning = [kind \in PlanKinds |-> NoPlanning]
    /\ asked = [kind \in PlanKinds |-> <<>>]
    /\ lookups = [kind \in PlanKinds |-> <<>>]
    /\ plans = [kind \in PlanKinds |-> NoPlan]
    /\ schema_retriever = NoRetriever
    /\ cell_retriever = NoRetriever
    /\ logged = NoLog

Init ==
    /\ max_depth \in 0..MaxDepth
    /\ init_prompt \in Prompts
    /\ pc = "loop"
    /\ i = 0
    /\ text = <<>>
    /\ text_bound = FALSE
    /\ solution = <<>>
    /\ memory = EmptyDict
    /\ n_iter = max_depth
    /\ result = NoResult
    /\ total_input_token_count = 0
    /\ total_output_token_count = 0
    /\ turns = <<>>
    /\ session = 1
    /\ earlier = {}
    /\ mode = "bm25"
    /\ top_k = 5
    /\ max_encode_cell = 10000
    /\ RetrieverInit({})
    /\ AgentIdle

\* One iteration of the for loop (agent.py:195-245), the API client doing api.
Turn(api) ==
    /\ pc = "loop"
    /\ i < max_depth
    /\ \E q \in {TableAgent_query(init_prompt \o solution \o THOUGHT, api)} :
       \E t \in {solver_turn(q, df_arg, memory)} :
          /\ total_input_token_count' = total_input_token_count + q.input_tokens
          /\ total_output_token_count' = total_output_token_count + q.output_tokens
          /\ turns' = Append(turns,
                [query |-> q.text, called |-> q.called, outcome |-> t.outcome,
                 text |-> t.text, code |-> t.code,
                 evaluated |-> t.outcome \in {"action", "escaped"},
                 observed |-> t.outcome \in {"no_action", "action"},
                 observation |-> t.observation,
                 memory_before |-> memory, memory_after |-> t.memory])
          /\ text' = IF t.outcome = "failed" THEN q.text ELSE t.text
          /\ text_bound' = TRUE
          /\ memory' = t.memory
          /\ solution' =
                CASE t.outcome = "failed" -> solution \o THOUGHT
                  [] t.outcome \in {"terminal", "escaped"} ->
                        solution \o THOUGHT \o t.text
                  [] OTHER ->
                        solution \o THOUGHT \o t.text
                            \o observation_segment(t.observation)
          /\ i' = IF t.outcome \in {"no_action", "action"} THEN i + 1 ELSE i
          /\ n_iter' = IF t.outcome = "terminal" THEN turn_number(i) ELSE n_iter
          /\ pc' = CASE t.outcome = "failed" -> "done"
                     [] t.outcome = "terminal" -> "break"
                     [] t.outcome = "escaped" -> "raised"
                     [] OTHER -> "loop"
          /\ result' =
                CASE t.outcome = "failed" ->
                        Return(IF q.is_none THEN FAILED_RESPONSE ELSE q.text,
                               turn_number(i), solution \o THOUGHT)
                  [] t.outcome = "escaped" -> [NoResult EXCEPT !.exc = t.exc]
                  [] OTHER -> result
    /\ UNCHANGED <<max_depth, init_prompt, session, earlier, rvars, avars>>

\* After the loop (agent.py:247-252): answer extraction and the return.
Extract ==
    /\ pc = "break" \/ (pc = "loop" /\ i >= max_depth)
    /\ pc' = "done"
    /\ result' = Return(IF text_bound THEN extract_answer(text) ELSE EXTRACT_FAILED,
                        n_iter, solution)
    /\ UNCHANGED <<max_depth, init_prompt, i, text, text_bound, solution, memory,
                   n_iter, total_input_token_count, total_output_token_count, turns,
                   session, earlier, rvars, avars>>

Next ==
    \/ \E api \in ApiOutcomes : Turn(api)
    \/ Extract

Spec == Init /\ [][Next]_vars

\* solver_loop called again on the same agent (agent.py:190-193): the locals
\* of the call start afresh, the agent's token totals go on.
StartSession ==
    /\ pc \in {"done", "raised"}
    /\ session < MaxSessions
    /\ session' = session + 1
    /\ earlier' = earlier \cup DOMAIN memory
    /\ pc' = "loop"
    /\ i' = 0
    /\ text' = <<>>
    /\ text_bound' = FALSE
    /\ solution' = <<>>
    /\ memory' = EmptyDict
    /\ n_iter' = max_depth
    /\ result' = NoResult
    /\ turns' = <<>>
    /\ UNCHANGED <<max_depth, init_prompt, total_input_token_count,
                   total_output_token_count, rvars, avars>>

InitSessions ==
    /\ Init
    /\ max_depth = SessionDepth
    /\ init_prompt = <<"Q">>

NextSessions ==
    \/ \E api \in ApiOutcomes : Turn(api)
    \/ Extract
    \/ StartSession

SpecSessions == InitSessions /\ [][NextSessions]_vars


(***************************************************************************)
(* init_retriever and get_retriever (retriever.py:61-107), step by step:   *)
(* the test for the directory, the build, and the writes of save_local     *)
(* (the directory, then the index file, then the pickled documents) are    *)
(* separate steps of a worker.                                             *)
(***************************************************************************)
\* the directory of the index worker w is getting
CurrentKind(w) == Head(wcall[w].todo)

CurrentDir(w) == db_dir(CurrentKind(w), max_encode_cell, wcall[w].table_id)

\* retriever.py:61-74, up to the first get_retriever: the agent is a
\* 'TableSampling' agent
InitRetriever(w, table_id, df) ==
    /\ w \in workers
    /\ wpc[w] = "idle"
    /\ ncalls < MaxCalls
    /\ ncalls' = ncalls + 1
    /\ held' = [held EXCEPT ![w] = iloc_head(df, init_max_row(max_encode_cell, df_ncol(df)))]
    /\ wcall' = [wcall EXCEPT ![w] =
                    [table_id |-> table_id, table |-> df, todo |-> <<"row", "column">>,
                     db |-> NoneIndex]]
    /\ wpc' = [wpc EXCEPT ![w] = "get"]
    /\ sampled' = [sampled EXCEPT ![w] = NoSample]
    /\ UNCHANGED <<mode, top_k, max_encode_cell, workers, retrievers, disk, saves,
                   embeds, source, origin, svars, avars>>

\* retriever.py:92-107: the retriever of the current kind is returned to
\* init_retriever, which goes on to the next kind
Returned(w, db, how) ==
    /\ retrievers' = [retrievers EXCEPT ![w][CurrentKind(w)] =
            MakeRetriever(mode, top_k, db,
                IF mode = "embed" THEN <<>> ELSE get_docs(CurrentKind(w), held[w]))]
    /\ origin' = [origin EXCEPT ![w][CurrentKind(w)] = how]
    /\ wcall' = [wcall EXCEPT ![w].todo = Tail(@), ![w].db = NoneIndex]
    /\ wpc' = [wpc EXCEPT ![w] = IF Len(wcall[w].todo) = 1 THEN "idle" ELSE "get"]

\* retriever.py:79-82, 94-98: the mode, and os.path.exists(db_dir)
GetRetriever(w) ==
    /\ w \in workers
    /\ wpc[w] = "get"
    /\ IF mode = "bm25"
       THEN /\ Returned(w, NoneIndex, "built")
            /\ UNCHANGED <<embeds, source>>
       ELSE IF path_exists(disk[CurrentDir(w)])
       THEN /\ wpc' = [wpc EXCEPT ![w] = "load"]
            /\ UNCHANGED <<retrievers, origin, wcall, embeds, source>>
       ELSE \* retriever.py:89-90
            /\ wcall' = [wcall EXCEPT ![w].db =
                            FAISS_from_documents(get_docs(CurrentKind(w), held[w]))]
            /\ embeds' = [embeds EXCEPT ![CurrentDir(w)] = @ + 1]
            /\ source' = [source EXCEPT ![CurrentDir(w)] = held[w]]
            /\ wpc' = [wpc EXCEPT ![w] = "mkdir"]
            /\ UNCHANGED <<retrievers, origin>>
    /\ UNCHANGED <<mode, top_k, max_encode_cell, workers, held, disk, sampled, ncalls,
                   saves, svars, avars>>

\* retriever.py:86  FAISS.load_local: it reads the two files, and raises
\* when one is not there
LoadLocal(w) ==
    /\ w \in workers
    /\ wpc[w] = "load"
    /\ IF disk[CurrentDir(w)].has_faiss /\ disk[CurrentDir(w)].has_pkl
       THEN Returned(w, [vectors |-> disk[CurrentDir(w)].faiss,
                         docstore |-> disk[CurrentDir(w)].pkl], "loaded")
       ELSE /\ wpc' = [wpc EXCEPT ![w] = "raised"]
            /\ UNCHANGED <<retrievers, origin, wcall>>
    /\ UNCHANGED <<mode, top_k, max_encode_cell, workers, held, disk, sampled, ncalls,
                   saves, embeds, source, svars, avars>>

\* retriever.py:91  db.save_local(db_dir), its first step: the directory
SaveMkdir(w) ==
    /\ w \in workers
    /\ wpc[w] = "mkdir"
    /\ disk' = [disk EXCEPT ![CurrentDir(w)].dir = TRUE]
    /\ saves' = [saves EXCEPT ![CurrentDir(w)] = @ + 1]
    /\ wpc' = [wpc EXCEPT ![w] = "write_index"]
    /\ UNCHANGED <<mode, top_k, max_encode_cell, workers, wcall, held, retrievers,
                   sampled, ncalls, embeds, source, origin, svars, avars>>

\* save_local, its second step: the index file
SaveIndex(w) ==
    /\ w \in workers
    /\ wpc[w] = "write_index"
    /\ disk' = [disk EXCEPT ![CurrentDir(w)].has_faiss = TRUE,
                            ![CurrentDir(w)].faiss = wcall[w].db.vectors]
    /\ wpc' = [wpc EXCEPT ![w] = "write_docs"]
    /\ UNCHANGED <<mode, top_k, max_encode_cell, workers, wcall, held, retrievers,
                   sampled, ncalls, saves, embeds, source, origin, svars, avars>>

\* save_local, its last step: the pickled documents; get_retriever returns
SaveDocs(w) ==
    /\ w \in workers
    /\ wpc[w] = "write_docs"
    /\ disk' = [disk EXCEPT ![CurrentDir(w)].has_pkl = TRUE,
                            ![CurrentDir(w)].pkl = wcall[w].db.docstore]
    /\ Returned(w, wcall[w].db, "built")
    /\ UNCHANGED <<mode, top_k, max_encode_cell, workers, held, sampled, ncalls, saves,
                   embeds, source, svars, avars>>

\* agent.py:318  sample_rows_and_columns(query) after init_retriever
Sample(w, query) ==
    /\ w \in workers
    /\ wpc[w] = "idle"
    /\ held[w] # NoTable
    /\ sampled[w] = NoSample
    /\ sampled' = [sampled EXCEPT ![w] =
            sample_rows_and_columns(retrievers[w]["row"], retrievers[w]["column"],
                                    held[w], query)]
    /\ UNCHANGED <<mode, top_k, max_encode_cell, workers, wpc, wcall, held, retrievers,
                   disk, ncalls, saves, embeds, source, origin, svars, avars>>

\* the solver_loop of the run has not been called
SolverIdle ==
    /\ max_depth = 0
    /\ init_prompt = <<"Q">>
    /\ pc = "loop"
    /\ i = 0
    /\ text = <<>>
    /\ text_bound = FALSE
    /\ solution = <<>>
    /\ memory = EmptyDict
    /\ n_iter = 0
    /\ result = NoResult
    /\ total_input_token_count = 0
    /\ total_output_token_count = 0
    /\ turns = <<>>
    /\ session = 1
    /\ earlier = {}

\* the settings of a run (run.py:56-72): the retrieve mode, top_k and
\* max_encode_cell
Modes == {"bm25", "embed", "hybrid"}

TopKs == {1, 5}

EncodeCells == {2, 8, 10000}

\* one worker: the calls of init_retriever follow one another
InitRetrievers ==
    /\ SolverIdle
    /\ mode \in Modes
    /\ top_k \in TopKs
    /\ max_encode_cell \in EncodeCells
    /\ RetrieverInit({1})
    /\ AgentIdle

WorkerStep(w) ==
    \/ \E t \in TableIds, df \in Tables : InitRetriever(w, t, df)
    \/ GetRetriever(w)
    \/ LoadLocal(w)
    \/ SaveMkdir(w)
    \/ SaveIndex(w)
    \/ SaveDocs(w)
    \/ \E q \in Queries : Sample(w, q)

NextRetrievers == \E w \in 1..NumWorkers : WorkerStep(w)

SpecRetrievers == InitRetrievers /\ [][NextRetrievers]_vars

\* the workers of run.py:147-154, each with its own Retriever, over one
\* db_dir
InitWorkers ==
    /\ SolverIdle
    /\ mode \in Modes
    /\ top_k \in TopKs
    /\ max_encode_cell \in EncodeCells
    /\ RetrieverInit(1..NumWorkers)
    /\ AgentIdle

SpecWorkers == InitWorkers /\ [][NextRetrievers]_vars

(***************************************************************************)
(* run() of TableAgent (agent.py:267-352) and of TableRAGAgent             *)
(* (rag_agent.py:141-242), with the planners retrieve_schema_by_prompt and *)
(* retrieve_cell_by_prompt (rag_agent.py:34-125).  One Retriever, worker   *)
(* 1, in bm25 mode.                                                        *)
(***************************************************************************)
\* the max_depth of the agent of a run
RunDepth == 1

\* a table of one column with enough rows for 3 * rows * columns to pass
\* the context limit, and a table of one row with enough columns for
\* 3 * top_k * columns to pass it when top_k is 5
TABLE_TALL == DataFrame(1, [r \in 1..(context_limit \div 3 + 1) |-> <<"1">>])

TABLE_WIDE ==
    DataFrame(context_limit \div 15 + 1, <<[c \in 1..(context_limit \div 15 + 1) |-> "1"]>>)

\* a table with a missing cell and a blank cell
TABLE_N == DataFrame(2, << <<NaN, "a">>, <<"b", " ">>, <<"a", "b">> >>)

\* the agent types and the tables of the runs
RunInputs ==
    ({"PyReAct", "RandSampling"} \X {TABLE_TALL, TABLE_WIDE, TABLE_A})
        \cup ({"ReadSchema"} \X {TABLE_TALL, TABLE_A})
        \cup ({"TableSampling"} \X {TABLE_A, TABLE_N})
        \cup ({"TableRAG"} \X {TABLE_N})

\* the questions: a short one, and one above the context limit
RunQuestions == {<<"Q">>, <<Passage, Passage>>}

\* what the API client may do on a call of the solver
RunApiOutcomes ==
    {ApiNone, ApiText(TEXT_final), ApiText(TEXT_action(CODE_assign_x)),
     ApiText(TEXT_action(CODE_exit))}

\* what the API client may do on a call of a planner
PlannerOutcomes ==
    {ApiNone, ApiText(RESP_none), ApiText(RESP_nested),
     ApiText(JSON_ab), ApiText(RESP_prose), ApiText(JSON_a1), ApiText(JSON_null_a),
     ApiText(JSON_number)}

InitRun ==
    /\ max_depth = RunDepth
    /\ init_prompt = <<>>
    /\ pc = "idle"
    /\ i = 0
    /\ text = <<>>
    /\ text_bound = FALSE
    /\ solution = <<>>
    /\ memory = EmptyDict
    /\ n_iter = 0
    /\ result = NoResult
    /\ total_input_token_count = 0
    /\ total_output_token_count = 0
    /\ turns = <<>>
    /\ session = 1
    /\ earlier = {}
    /\ mode = "bm25"
    /\ top_k \in TopKs
    /\ max_encode_cell = 10000
    /\ RetrieverInit({1})
    /\ \E input \in RunInputs :
        /\ agent_type = input[1]
        /\ data = input[2]
    /\ question \in RunQuestions
    /\ stage = "idle"
    /\ planning = [kind \in PlanKinds |-> NoPlanning]
    /\ asked = [kind \in PlanKinds |-> <<>>]
    /\ lookups = [kind \in PlanKinds |-> <<>>]
    /\ plans = [kind \in PlanKinds |-> NoPlan]
    /\ schema_retriever = NoRetriever
    /\ cell_retriever = NoRetriever
    /\ logged = NoLog

\* agent.py:190-193  solver_loop is entered with the prompt
StartLoop(prompt) ==
    /\ init_prompt' = prompt
    /\ pc' = "loop"
    /\ i' = 0
    /\ text' = <<>>
    /\ text_bound' = FALSE
    /\ solution' = <<>>
    /\ memory' = EmptyDict
    /\ n_iter' = max_depth
    /\ result' = NoResult
    /\ turns' = <<>>
    /\ UNCHANGED <<max_depth, total_input_token_count, total_output_token_count,
                   session, earlier>>

\* agent.py:331-350  the log of a run: the JSON record, and the text file
\* with prompt + solution
Log(prompt, answer, sol, n) ==
    [written |-> TRUE, answer |-> answer, solution |-> sol, n_iter |-> n,
     has_text |-> TRUE, text |-> prompt \o sol]

\* agent.py:289-326  TableAgent.run up to the call of solver_loop, or, for
\* a table that is too large, to its end
Run ==
    /\ stage = "idle"
    /\ agent_type \in {"PyReAct", "ReadSchema", "RandSampling", "TableSampling"}
    /\ IF table_too_large(agent_type, data, top_k)
       THEN /\ logged' = Log(<<>>, TOO_LARGE, TOO_LARGE, 0)
            /\ stage' = "logged"
            /\ UNCHANGED <<svars, rvars>>
       ELSE IF agent_type = "TableSampling"
       THEN \* agent.py:316-318, retriever.py:61-74, 207-215
            \E df \in {iloc_head(data, init_max_row(max_encode_cell, df_ncol(data)))} :
            \E rs \in {[d \in Kinds |-> MakeRetriever(mode, top_k, NoneIndex, get_docs(d, df))]} :
            \E s \in {sample_rows_and_columns(rs["row"], rs["column"], df, question)} :
                /\ held' = [held EXCEPT ![1] = df]
                /\ retrievers' = [retrievers EXCEPT ![1] = rs]
                /\ origin' = [origin EXCEPT ![1] = [d \in Kinds |-> "built"]]
                /\ sampled' = [sampled EXCEPT ![1] = s]
                /\ ncalls' = ncalls + 1
                /\ IF s.raised = "none"
                   THEN /\ StartLoop(get_prompt(question, <<>>))
                        /\ stage' = "solver"
                   ELSE /\ stage' = "raised"
                        /\ UNCHANGED svars
                /\ UNCHANGED <<mode, top_k, max_encode_cell, workers, wpc, wcall, disk,
                               saves, embeds, source, logged>>
       ELSE /\ StartLoop(get_prompt(question, <<>>))
            /\ stage' = "solver"
            /\ UNCHANGED <<rvars, logged>>
    /\ UNCHANGED <<agent_type, data, question, planning, asked, lookups, plans,
                   schema_retriever, cell_retriever>>

\* rag_agent.py:186-192, retriever.py:61-67  TableRAGAgent.run up to the
\* first planner: init_retriever builds the schema and the cell retriever
RagRun ==
    /\ stage = "idle"
    /\ agent_type = "TableRAG"
    /\ held' = [held EXCEPT ![1] = data]
    /\ schema_retriever' = MakeRetriever(mode, top_k, NoneIndex, get_docs("schema", data))
    /\ cell_retriever' = MakeRetriever(mode, top_k, NoneIndex, get_docs("cell", data))
    /\ ncalls' = ncalls + 1
    /\ stage' = "schema"
    /\ UNCHANGED <<svars, mode, top_k, max_encode_cell, workers, wpc, wcall, retrievers,
                   disk, sampled, saves, embeds, source, origin, agent_type, data,
                   question, planning, asked, lookups, plans, logged>>

\* where run() goes on after a planner has returned
AfterPlanner(kind) == IF kind = "schema" THEN "cell" ELSE "solve"

\* rag_agent.py:64-71, 116-125  the end of a planner, the attempts having
\* given queries: the look-ups, the result text, and the return.  A query
\* that is no string makes the look-up raise, and the join of the queries
\* too.
PlannerReturns(kind, queries) ==
    \E r \in {retrieve_all(kind, IF kind = "schema" THEN schema_retriever
                                  ELSE cell_retriever, queries)} :
        /\ lookups' = [lookups EXCEPT ![kind] = r.looked]
        /\ IF r.raised \/ \E k \in DOMAIN queries : queries[k].j # "str"
           THEN /\ plans' = [plans EXCEPT ![kind] = RaisedPlan]
                /\ stage' = "raised"
           ELSE \E docs \in listings(r.found) :
                /\ plans' = [plans EXCEPT ![kind] = ReturnedPlan(kind, queries, docs)]
                /\ stage' = AfterPlanner(kind)

\* One attempt of a planner (rag_agent.py:47-62, 100-115), the API client
\* doing api, and, after the attempt that parses or the last one, the rest
\* of the planner.
PlannerAttempt(kind, api) ==
    /\ stage = kind
    /\ planning[kind].attempt < max_attempt
    /\ \E q \in {TableAgent_query(get_prompt(question, <<>>), api)} :
        /\ total_input_token_count' = total_input_token_count + q.input_tokens
        /\ total_output_token_count' = total_output_token_count + q.output_tokens
        /\ asked' = [asked EXCEPT ![kind] = Append(@, [text |-> q.text, called |-> q.called])]
        /\ IF is_query_failure(q.text)
           THEN /\ planning' = [planning EXCEPT ![kind].attempt = @ + 1]
                /\ plans' = [plans EXCEPT ![kind] = FailedPlan(kind)]
                /\ stage' = AfterPlanner(kind)
                /\ UNCHANGED lookups
           ELSE \E parse \in {attempt_parse(q.text)} :
                /\ planning' = [planning EXCEPT ![kind] =
                        [attempt |-> @.attempt + 1, parsed |-> parse.ok,
                         queries |-> parse.items]]
                /\ IF parse.ok \/ planning[kind].attempt + 1 >= max_attempt
                   THEN PlannerReturns(kind, plan_queries(kind, parse.items))
                   ELSE UNCHANGED <<lookups, plans, stage>>
    /\ UNCHANGED <<max_depth, init_prompt, pc, i, text, text_bound, solution, memory,
                   n_iter, result, turns, session, earlier, rvars, agent_type, data,
                   question, schema_retriever, cell_retriever, logged>>

\* rag_agent.py:214-216  the prompt of the solver, and the call of
\* solver_loop
SolveTable ==
    /\ stage = "solve"
    /\ StartLoop(get_prompt(question,
                            plans["schema"].result_text \o plans["cell"].result_text))
    /\ stage' = "solver"
    /\ UNCHANGED <<rvars, agent_type, data, question, planning, asked, lookups, plans,
                   schema_retriever, cell_retriever, logged>>

\* agent.py:328-352, rag_agent.py:218-242  solver_loop has returned and the
\* log is written; an exception that left solver_loop leaves run() too
LogResult ==
    /\ stage = "solver"
    /\ pc \in {"done", "raised"}
    /\ IF pc = "done"
       THEN /\ logged' = Log(init_prompt, result.answer, result.solution, result.n_iter)
            /\ stage' = "logged"
       ELSE /\ stage' = "raised"
            /\ UNCHANGED logged
    /\ UNCHANGED <<svars, rvars, agent_type, data, question, planning, asked, lookups,
                   plans, schema_retriever, cell_retriever>>

NextRun ==
    \/ Run
    \/ RagRun
    \/ \E kind \in PlanKinds, api \in PlannerOutcomes : PlannerAttempt(kind, api)
    \/ SolveTable
    \/ \E api \in RunApiOutcomes : Turn(api)
    \/ Extract
    \/ LogResult

SpecRun == InitRun /\ [][NextRun]_vars

(***************************************************************************)
(* Properties.                                                             *)
(***************************************************************************)
\* s.endswith(p)
str_endswith(s, p) == Len(p) <= Len(s) /\ SubSeq(s, Len(s) - Len(p) + 1, Len(s)) = p

\* text contains 'final answer:' in some letter case
has_marker(t) == str_in(FINAL_ANSWER_MARKER, str_lower(t))

\* the loop ran out of depth: no turn ended it
Exhausted ==
    /\ result.returned
    /\ turns # <<>> => turns[Len(turns)].outcome \in {"no_action", "action"}

\* C1: a turn whose model text contains 'final answer:' in any letter case
\* never calls the evaluator and leaves the memory alone, also when the text
\* contains 'Action:'.
C1_TerminalTurnNeverEvaluates ==
    \A k \in DOMAIN turns :
        has_marker(turns[k].query) =>
            /\ ~turns[k].evaluated
            /\ turns[k].memory_after = turns[k].memory_before

\* a terminal turn whose text also carries an action
C1_Witness ==
    \E k \in DOMAIN turns :
        /\ turns[k].outcome = "terminal"
        /\ str_in(ACTION_MARKER, turns[k].text)
        /\ pc = "break"

\* C2: a query result beginning with 'Error:' ends the loop in that turn:
\* the result is returned as the answer, it is the last query, the evaluator
\* is not called and no Observation is appended (the transcript ends with
\* the turn's 'Thought: ').
C2_ErrorTextStopsLoop ==
    \A k \in DOMAIN turns :
        str_startswith(turns[k].query, ERROR_PREFIX) =>
            /\ k = Len(turns)
            /\ pc = "done"
            /\ result.returned
            /\ result.answer = turns[k].query
            /\ ~turns[k].evaluated
            /\ ~turns[k].observed
            /\ str_endswith(solution, THOUGHT)
            /\ result.solution = solution

\* the model call fails at the second turn or later
C2_Witness ==
    \E k \in DOMAIN turns :
        /\ k >= 2
        /\ str_startswith(turns[k].query, ERROR_PREFIX)
        /\ result.returned

\* C3, as claimed: a turn whose prompt is over the context limit, or whose
\* model response is empty, is the last turn and the loop has stopped.
C3_LengthErrorOrEmptyStops ==
    \A k \in DOMAIN turns :
        (~turns[k].called \/ turns[k].query = <<>> \/ turns[k].query = EMPTY_RESPONSE) =>
            /\ k = Len(turns)
            /\ pc = "done"

\* C4, as claimed: the returned iteration count is the number of the turn
\* the loop stopped at, so it is at least 1, at most max_depth, and the
\* number of queries made.
C4_IterationCountAtLeastOne ==
    result.returned =>
        /\ result.n_iter = Len(turns)
        /\ 1 <= result.n_iter
        /\ result.n_iter <= max_depth

\* C4, amended: the returned iteration count is the number of queries made
\* (the number of the turn the loop stopped at), it is max_depth when the
\* depth ran out, it lies in 0..max_depth, and it is at least 1 when
\* max_depth is.
C4_IterationCount ==
    result.returned =>
        /\ result.n_iter = Len(turns)
        /\ Exhausted => result.n_iter = max_depth
        /\ 0 <= result.n_iter
        /\ result.n_iter <= max_depth
        /\ max_depth >= 1 => result.n_iter >= 1

\* the loop stops on a terminal text at turn 2 of 3
C4_Witness ==
    /\ result.returned
    /\ max_depth = 3
    /\ Len(turns) = 2
    /\ turns[2].outcome = "terminal"
    /\ result.n_iter = 2

\* what follows the marker, in whatever letter case, up to the first
\* newline, trimmed
text_after_marker(t) ==
    LET j == str_find(str_lower(t), FINAL_ANSWER_MARKER, 1)
    IN  str_strip(split_first(Tail_from(t, j + Len(FINAL_ANSWER_MARKER)), NL))

\* C5, as claimed: when the loop ends on a terminal text, the answer is the
\* text after the terminal marker up to the first newline, trimmed.
C5_AnswerFollowsMarker ==
    (result.returned /\ turns # <<>> /\ turns[Len(turns)].outcome = "terminal") =>
        result.answer = text_after_marker(turns[Len(turns)].text)

\* C6, as claimed: when the depth runs out and the last model text has no
\* terminal marker (or there is no model text), the answer is the
\* extraction-failure marker.
C6_ExhaustedGivesFailureMarker ==
    (Exhausted /\ (~text_bound \/ ~has_marker(text))) => result.answer = EXTRACT_FAILED

\* C7: a turn whose query result is a model text (not an error) with neither
\* the terminal marker nor 'Action:' does not call the evaluator, leaves the
\* memory as it was, and appends exactly 'Error: no Action provided.' as
\* its observation.
C7_NoActionTurn ==
    \A k \in DOMAIN turns :
        (/\ ~str_startswith(turns[k].query, ERROR_PREFIX)
         /\ ~has_marker(turns[k].query)
         /\ ~str_in(ACTION_MARKER, turns[k].query)) =>
            /\ ~turns[k].evaluated
            /\ turns[k].memory_after = turns[k].memory_before
            /\ turns[k].observed
            /\ turns[k].observation = NO_ACTION
            /\ k = Len(turns) => str_endswith(solution, OBSERVATION_HEAD \o NO_ACTION \o NL)

\* a turn without an action, after a turn that bound a variable
C7_Witness ==
    \E k \in DOMAIN turns :
        /\ turns[k].outcome = "no_action"
        /\ NAME_x \in DOMAIN turns[k].memory_before
        /\ memory = turns[k].memory_before

\* C8, as claimed: the observation of an action whose code indexes past the
\* last row begins with 'Error:'.
C8_IndexErrorObservation ==
    \A k \in DOMAIN turns :
        (turns[k].evaluated /\ turns[k].code = CODE_iloc) =>
            /\ turns[k].observed
            /\ str_startswith(turns[k].observation, ERROR_PREFIX)

\* C9, as claimed: whatever the code, python_repl_ast returns its pair: no
\* exception leaves it (and so none leaves solver_loop).
C9_EvaluatorNeverRaises ==
    /\ pc # "raised"
    /\ \A k \in DOMAIN turns : turns[k].evaluated => turns[k].outcome = "action"

\* the names the code of turn t binds when its statements run in order in
\* the namespace of that turn, up to the first statement that raises
bound_by(t) ==
    LET locals0 == dict_merge([k \in {NAME_df} |-> df_arg], t.memory_before)
        r == exec_block(ast_parse(t.code).body, locals0)
    IN  {n \in DOMAIN r.locals : n \notin DOMAIN locals0 \/ r.locals[n] # locals0[n]}

\* C10, as claimed: a later turn of a session finds every name an earlier
\* turn's code bound, and every name a turn finds in the memory was bound by
\* an earlier turn of the same session.
C10_LaterTurnsSeeBindings ==
    /\ \A a, b \in DOMAIN turns :
          (a < b /\ turns[a].evaluated /\ turns[b].evaluated) =>
              bound_by(turns[a]) \subseteq DOMAIN turns[b].memory_before
    /\ \A b \in DOMAIN turns :
          \A n \in DOMAIN turns[b].memory_before :
              n = NAME_df \/ \E a \in 1..(b - 1) : n \in bound_by(turns[a])

\* the names the statements of a block assign, and those they delete
assigned_names(code) ==
    LET body == ast_parse(code).body
    IN  {body[k].target : k \in {j \in DOMAIN body : body[j].op = "assign"}}

deleted_names(code) ==
    LET body == ast_parse(code).body
    IN  {body[k].target : k \in {j \in DOMAIN body : body[j].op = "del"}}

\* C11, as claimed: the memory after an evaluated block is the memory before
\* it changed by the block's own bindings only: the names it assigns are
\* bound after it, the names it deletes are gone, and no other name is
\* added, removed or changed (the table name df, which seeds the memory, is
\* left out of 'added').
C11_MemoryChangedByOwnBindings ==
    \A k \in DOMAIN turns :
        turns[k].evaluated =>
            LET before == turns[k].memory_before
                after == turns[k].memory_after
                assigned == assigned_names(turns[k].code)
                deleted == deleted_names(turns[k].code)
            IN  /\ assigned \ deleted \subseteq DOMAIN after
                /\ (deleted \ assigned) \cap DOMAIN after = {}
                /\ DOMAIN after \ DOMAIN before \subseteq assigned \cup {NAME_df}
                /\ DOMAIN before \ DOMAIN after \subseteq deleted
                /\ \A n \in DOMAIN before \cap DOMAIN after :
                      after[n] # before[n] => n \in assigned

\* the number of places of s at which p begins
str_count(s, p) ==
    Cardinality({k \in 1..(Len(s) - Len(p) + 1) : SubSeq(s, k, k + Len(p) - 1) = p})

\* s begins with p
IsPrefix(p, s) == Len(p) <= Len(s) /\ SubSeq(s, 1, Len(p)) = p

\* the turns, out of the first n, that recorded an observation
ObservedTurns(n) == {k \in 1..n : turns[k].observed}

\* the transcript after the first n turns of the session, read off the
\* turns: for each 'Thought: ', the model text (none when the call failed)
\* and, for a completed turn that is neither terminal nor failed, its
\* observation
RECURSIVE transcript_of(_)
transcript_of(n) ==
    IF n = 0 THEN <<>>
    ELSE transcript_of(n - 1) \o THOUGHT \o turns[n].text
            \o (IF turns[n].outcome \notin {"no_action", "action"} THEN <<>>
                ELSE <<"\n">> \o <<"O", "b", "s", "e", "r", "v", "a", "t", "i", "o", "n", ":", " ">>
                        \o turns[n].observation \o <<"\n">>)

\* C12: at every point the transcript only grows and is one 'Thought: '
\* segment for each turn, followed by the model text and, for every
\* completed turn that is neither terminal nor failed, by exactly one
\* Observation segment before the next 'Thought: '; a terminal or failed
\* turn is the last one and carries no Observation, so the Observation
\* segments number the completed non-terminal turns and never more than the
\* Thought segments.  (A turn cut short by an exception that leaves
\* solver_loop is not completed: it is the last one and has no Observation.)
C12_TranscriptWellFormed ==
    /\ [](/\ solution = transcript_of(Len(turns))
          /\ \A k \in DOMAIN turns :
                /\ turns[k].observed <=> turns[k].outcome \in {"no_action", "action"}
                /\ ~turns[k].observed => k = Len(turns)
                /\ turns[k].observed => turns[k].observation # <<>>
          /\ str_count(solution, OBSERVATION_HEAD) = Cardinality(ObservedTurns(Len(turns)))
          /\ str_count(solution, OBSERVATION_HEAD) <= Len(turns)
          /\ Len(turns) <= str_count(solution, THOUGHT))
    /\ [][IsPrefix(solution, solution')]_vars

\* an action turn and a turn without an action, then a terminal turn
C12_Witness ==
    /\ pc = "done"
    /\ Len(turns) = 3
    /\ turns[1].outcome = "action"
    /\ turns[2].outcome = "no_action"
    /\ turns[3].outcome = "terminal"
    /\ str_count(solution, OBSERVATION_HEAD) = 2

\* the turns that are terminal or failed
EndingTurns == {k \in DOMAIN turns : turns[k].outcome \in {"terminal", "failed"}}

\* C13, as claimed: solver_loop makes at most max_depth queries, and once it
\* has stopped it has returned (answer extraction done) after exactly
\* min(max_depth, first terminal or failed turn) turns: no other turn, and
\* in particular no turn whose action is malformed or fails, ends the session.
C13_RunsToTerminalOrDepth ==
    /\ Len(turns) <= max_depth
    /\ pc = "loop" => EndingTurns = {}
    /\ pc \in {"done", "raised"} =>
          /\ result.returned
          /\ Len(turns) = IF EndingTurns = {} THEN max_depth ELSE SetMin(EndingTurns)

\* what the evaluator returned in turn t, before solver_loop limited it
evaluator_observation(t) ==
    python_repl_ast(t.code, [k \in {NAME_df} |-> df_arg], t.memory_before).observation

\* C14, as claimed: the observation an action turn appends to the
\* transcript is not empty and has no more tokens than the context limit.
C14_ObservationWithinLimit ==
    \A k \in DOMAIN turns :
        turns[k].outcome = "action" =>
            /\ turns[k].observation # <<>>
            /\ get_token_count(turns[k].observation) <= context_limit

\* C14: the observation an action turn appends is the evaluator's output,
\* replaced by the 'too long' marker when it has more tokens than the
\* context limit and by 'success!' when it is empty, and then preceded by a
\* newline when it has several lines; it is never empty, and it has at most
\* one token more than the context limit, that one being the newline put
\* before a several-line output of exactly context_limit tokens.
C14_ObservationLimited ==
    \A k \in DOMAIN turns :
        turns[k].outcome = "action" =>
            LET raw == evaluator_observation(turns[k])
                kept == IF get_token_count(raw) > context_limit THEN OBSERVATION_TOO_LONG
                        ELSE IF raw = <<>> THEN SUCCESS_MARKER
                        ELSE raw
                appended == turns[k].observation
            IN  /\ appended # <<>>
                /\ get_token_count(kept) <= context_limit
                /\ appended = IF \E j \in DOMAIN kept : kept[j] = "\n"
                              THEN <<"\n">> \o kept ELSE kept
                /\ get_token_count(appended) <= context_limit + 1
                /\ get_token_count(appended) > context_limit =>
                      get_token_count(raw) = context_limit

\* an action turn whose evaluator output was empty, then one whose output
\* has exactly context_limit tokens on two lines
C14_Witness ==
    /\ Len(turns) = 2
    /\ \A k \in 1..2 : turns[k].outcome = "action"
    /\ evaluator_observation(turns[1]) = <<>>
    /\ turns[1].observation = SUCCESS_MARKER
    /\ get_token_count(evaluator_observation(turns[2])) = context_limit
    /\ get_token_count(turns[2].observation) = context_limit + 1

\* the block of turn t, run as python_repl_ast runs it: the statements
\* before the last in the namespace of the turn, then the last statement
\* as an expression (a last print(e) being evaluated as e)
block_run(t) ==
    LET body == ast_parse(t.code).body
        n == Len(body)
        first == exec_block(SubSeq(body, 1, n - 1),
                            dict_merge([k \in {NAME_df} |-> df_arg], t.memory_before))
        st == strip_print(body[n])
    IN  [first |-> first, is_expression |-> st.op = "expr",
         last |-> IF st.op = "expr" /\ ~Raised(first.exc)
                  THEN eval_expr(st.value, first.locals)
                  ELSE [val |-> NoneVal, out |-> <<>>, exc |-> NoExc]]

\* turn t evaluated a block that ends in an expression and raised nothing
evaluates_expression(t) ==
    /\ t.outcome = "action"
    /\ ast_parse(t.code).ok
    /\ ast_parse(t.code).body # <<>>
    /\ ~Raised(block_run(t).first.exc)
    /\ block_run(t).is_expression
    /\ ~Raised(block_run(t).last.exc)

\* standard output with a newline at its end when it is not empty
captured_output(out) ==
    IF out = <<>> \/ out[Len(out)] = "\n" THEN out ELSE out \o <<"\n">>

\* the text of a value: a string as it is, anything else through str
value_text(v) == IF v.t = "str" THEN v.s ELSE py_str(v)

StrictlyAscending(ids) == \A j \in 1..(Len(ids) - 1) : ids[j] < ids[j + 1]

\* C16, as claimed: whatever the query, the mode and the init_retriever
\* calls made before, also when an index was loaded from db_dir,
\* sample_rows_and_columns returns a sub-table whose row ids and column ids
\* are strictly ascending and are ids of the table the retriever holds.
C16_SampleIdsAscendingInRange ==
    \A w \in workers :
        sampled[w] # NoSample =>
            /\ sampled[w].raised = "none"
            /\ StrictlyAscending(sampled[w].row_ids)
            /\ StrictlyAscending(sampled[w].col_ids)
            /\ \A j \in DOMAIN sampled[w].row_ids :
                  sampled[w].row_ids[j] \in 0..(df_nrow(held[w]) - 1)
            /\ \A j \in DOMAIN sampled[w].col_ids :
                  sampled[w].col_ids[j] \in 0..(df_ncol(held[w]) - 1)

\* the files of a directory are both written
Complete(entry) == entry.dir /\ entry.has_faiss /\ entry.has_pkl

\* C17: in 'embed' and 'hybrid' mode, calls of get_retriever that follow
\* one another embed the documents and write the directory of a key only
\* when no directory was there: each directory is built and saved at most
\* once, nothing is embedded or saved for a directory that exists, a
\* directory whose files are written is never changed, and the retriever
\* got for an existing directory holds the index read from it.
C17_ExistingIndexLoadedNotRewritten ==
    /\ [](\A p \in DOMAIN disk :
            /\ saves[p] <= 1
            /\ embeds[p] <= 1
            /\ saves[p] <= embeds[p])
    /\ [](\A w \in workers : \A d \in Kinds :
            (wpc[w] = "idle" /\ origin[w][d] = "loaded") =>
                LET entry == disk[db_dir(d, max_encode_cell, wcall[w].table_id)]
                IN  /\ Complete(entry)
                    /\ retrievers[w][d].db.vectors = entry.faiss
                    /\ retrievers[w][d].db.docstore = entry.pkl)
    /\ [][\A p \in DOMAIN disk :
            /\ disk[p].dir => (saves'[p] = saves[p] /\ embeds'[p] = embeds[p])
            /\ Complete(disk[p]) => disk'[p] = disk[p]]_vars

\* a second init_retriever for a table id whose two indexes were saved by
\* the first: both retrievers loaded, each directory written once
C17_Witness ==
    /\ mode = "hybrid"
    /\ ncalls = 2
    /\ wpc[1] = "idle"
    /\ \A d \in Kinds :
          /\ origin[1][d] = "loaded"
          /\ saves[db_dir(d, max_encode_cell, wcall[1].table_id)] = 1
          /\ embeds[db_dir(d, max_encode_cell, wcall[1].table_id)] = 1

\* the workers that have called init_retriever
Callers == {w \in workers : wcall[w].table # NoTable}

\* C18, as claimed: when the workers call init_retriever once each for the
\* same table id and the same table over an empty db_dir, no worker loads a
\* missing or half-written index, and every retriever a worker gets holds
\* the index built from that table.
C18_RacingWorkersGetTheBuiltIndex ==
    (/\ mode # "bm25"
     /\ ncalls = Cardinality(Callers)
     /\ \A a, b \in Callers :
            wcall[a].table_id = wcall[b].table_id /\ wcall[a].table = wcall[b].table)
    => \A w \in Callers :
          /\ wpc[w] # "raised"
          /\ \A d \in Kinds :
                origin[w][d] # "none" =>
                    retrievers[w][d].db = FAISS_from_documents(get_docs(d, held[w]))

\* the retriever get_retriever returns when it builds the index of kind d
\* from the table worker w holds
fresh_retriever(w, d) ==
    MakeRetriever(mode, top_k, FAISS_from_documents(get_docs(d, held[w])),
                  IF mode = "embed" THEN <<>> ELSE get_docs(d, held[w]))

kept_rows(df) ==
    LET quota == (max_encode_cell \div 2) \div df.ncol
        most == IF quota < 1 THEN 1 ELSE quota
    IN  SubSeq(df.rows, 1, IF Len(df.rows) < most THEN Len(df.rows) ELSE most)

\* C20: after init_retriever on a table of c >= 1 columns and n rows the
\* retriever holds exactly its first min(n, max(1, max_encode_cell // 2 // c))
\* rows, the row and column documents it builds are those of these rows,
\* and sample_rows_and_columns cuts nothing more: it returns cells of the
\* held rows, all of them when top_k reaches the held rows and columns.
C20_TruncatedOnceAtInit ==
    \A w \in workers :
        wcall[w].table # NoTable =>
            /\ held[w].ncol = wcall[w].table.ncol
            /\ held[w].rows = kept_rows(wcall[w].table)
            /\ \A d \in Kinds :
                  (wpc[w] = "idle" /\ origin[w][d] = "built") =>
                      LET docs == IF d = "row"
                                  THEN build_row_corpus(
                                          DataFrame(wcall[w].table.ncol,
                                                    kept_rows(wcall[w].table)))
                                  ELSE build_column_corpus(
                                          DataFrame(wcall[w].table.ncol,
                                                    kept_rows(wcall[w].table)))
                      IN  /\ mode # "embed" => retrievers[w][d].docs = docs
                          /\ mode # "bm25" => retrievers[w][d].db.docstore = docs
            /\ (/\ sampled[w] # NoSample
                /\ origin[w]["row"] = "built"
                /\ origin[w]["column"] = "built")
               => /\ sampled[w].raised = "none"
                  /\ \A j \in DOMAIN sampled[w].row_ids :
                        sampled[w].row_ids[j] < Len(kept_rows(wcall[w].table))
                  /\ (top_k >= df_nrow(held[w]) /\ top_k >= df_ncol(held[w]))
                        => sampled[w].table = held[w]

\* a table of three rows cut to two at init_retriever, and sampled whole
C20_Witness ==
    /\ max_encode_cell = 8
    /\ wcall[1].table = TABLE_A
    /\ df_nrow(held[1]) = 2
    /\ origin[1]["row"] = "built"
    /\ sampled[1].raised = "none"
    /\ sampled[1].table = held[1]

(***************************************************************************)
(* Claims C26, C28, C29, C30: the code parser, the evaluator and the       *)
(* prompt limit, over the turns of a session.                              *)
(***************************************************************************)
\* what is left of s when its decoration is removed: the text between the
\* first triple fence and the next one, after a language tag (a word that
\* white space follows) if there is one; else the text between the first
\* two single backticks; else s.  Trimmed in each case.
undecorated(s) ==
    LET open == str_find(s, TRIPLE_BACKTICK, 1)
        word == run_end(s, open + 3, WordChars)
        from == IF word <= Len(s) /\ s[word] \in Whitespace THEN word ELSE open + 3
        close == IF open = 0 THEN 0 ELSE str_find(s, TRIPLE_BACKTICK, from)
        tick == str_find(s, BACKTICK, 1)
        tock == IF tick = 0 THEN 0 ELSE str_find(s, BACKTICK, tick + 1)
    IN  IF open # 0 /\ close # 0 THEN str_strip(SubSeq(s, from, close - 1))
        ELSE IF tick # 0 /\ tock # 0 THEN str_strip(SubSeq(s, tick + 1, tock - 1))
        ELSE str_strip(s)

\* C26: the code a turn evaluates is the text after the last 'Action:' with
\* its decoration removed and nothing else lost: the trimmed content of a
\* triple fence (with or without a language tag), else the trimmed content
\* of single backticks, else the whole text trimmed.
C26_CodeIsActionUndecorated ==
    \A k \in DOMAIN turns :
        turns[k].evaluated =>
            turns[k].code =
                undecorated(str_strip(split_last(turns[k].text, ACTION_MARKER)))

\* the names of the exceptions the blocks of the model raise
ErrorNames == {NAME_ERROR, INDEX_ERROR, TYPE_ERROR, SYNTAX_ERROR, ZERO_DIVISION_ERROR}

\* an observation of the form python_repl_ast gives a caught exception
is_error_observation(observation) ==
    \E name \in ErrorNames : IsPrefix(name \o COLON_SPACE, observation)

\* C28: when python_repl_ast returns an error observation, the memory it
\* returns binds the names the memory passed in bound, to the same values:
\* the failed block adds, changes and removes no binding, whatever the
\* statements before the failure assigned.
C28_FailedBlockLeavesMemory ==
    \A k \in DOMAIN turns :
        (/\ turns[k].outcome = "action"
         /\ is_error_observation(evaluator_observation(turns[k])))
            => turns[k].memory_after = turns[k].memory_before

\* C28 witness: a block that assigns x = 2 and then fails, run on a memory
\* in which an earlier turn bound x to 1
C28_Witness ==
    \E k \in DOMAIN turns :
        /\ turns[k].outcome = "action"
        /\ turns[k].code = CODE_assign_then_fail
        /\ is_error_observation(evaluator_observation(turns[k]))
        /\ NAME_x \in DOMAIN turns[k].memory_before
        /\ turns[k].memory_before[NAME_x] = IntVal(1)
        /\ turns[k].memory_after = turns[k].memory_before

\* the prompt of the next turn is over the context limit
PromptTooLong == get_token_count(init_prompt \o solution \o THOUGHT) > context_limit

\* some turn of the session was refused for its prompt length
LimitHit ==
    \E k \in DOMAIN turns : ~turns[k].called /\ IsPrefix(PROMPT_LENGTH, turns[k].query)

\* C29: a turn whose prompt is over the context limit gets the 'Prompt
\* length ... is too long' text without a call of the model, adds nothing to
\* the input-token total and does not stop the loop; the prompt of the turn
\* after it is over the limit again, so the model is not called for the rest
\* of the session, which runs to max_depth.
C29_OverLimitPromptNeverCallsAgain ==
    [][/\ (pc = "loop" /\ i < max_depth /\ PromptTooLong) =>
            /\ Len(turns') = Len(turns) + 1
            /\ ~turns'[Len(turns')].called
            /\ turns'[Len(turns')].query =
                    PROMPT_LENGTH
                        \o int_str(get_token_count(init_prompt \o solution \o THOUGHT))
                        \o IS_TOO_LONG
            /\ total_input_token_count' = total_input_token_count
            /\ pc' = "loop"
            /\ i' = i + 1
            /\ PromptTooLong'
       /\ (pc = "loop" /\ i >= max_depth /\ LimitHit) =>
            /\ pc' = "done"
            /\ Len(turns) = max_depth
            /\ result'.n_iter = max_depth]_vars

\* C29 witness: a session of three turns that called the model in the
\* first turn only and has returned
C29_Witness ==
    /\ pc = "done"
    /\ Len(turns) = 3
    /\ turns[1].called
    /\ ~turns[2].called
    /\ ~turns[3].called
    /\ total_input_token_count = get_token_count(init_prompt \o THOUGHT)
    /\ result.n_iter = 3

\* C30: each statement before the last is executed once (as far as the
\* block gets); the last statement is evaluated once, and executed after
\* that exactly when its evaluation raised, in the namespace the failed
\* evaluation left.
C30_LastStatementRunAgainWhenEvalRaises ==
    \A k \in DOMAIN turns :
        (turns[k].evaluated /\ ast_parse(turns[k].code).ok
            /\ ast_parse(turns[k].code).body # <<>>) =>
            LET n == Len(ast_parse(turns[k].code).body)
                ran == python_repl_ast(turns[k].code, [d \in {NAME_df} |-> df_arg],
                                       turns[k].memory_before).ran
                of(j) == {m \in DOMAIN ran : ran[m].stmt = j}
                clean(j) == \A m \in DOMAIN ran : ran[m].stmt < j => ~Raised(ran[m].call.exc)
            IN  /\ \A j \in 1..(n - 1) :
                        /\ Cardinality(of(j)) = IF clean(j) THEN 1 ELSE 0
                        /\ \A m \in of(j) : ran[m].call.how = "exec"
                /\ clean(n) =>
                        /\ ran[n].stmt = n
                        /\ ran[n].call.how = "eval"
                        /\ Cardinality(of(n)) = IF Raised(ran[n].call.exc) THEN 2 ELSE 1
                        /\ Raised(ran[n].call.exc) =>
                                /\ ran[n + 1].call.how = "exec"
                                /\ ran[n + 1].call.before = ran[n].call.after
                /\ ~clean(n) => of(n) = {}

(***************************************************************************)
(* Properties of run() and of the planners, on SpecRun.                    *)
(***************************************************************************)
\* the result of a query() call begins with 'Error:'
BeginsWithError(a) == IsPrefix(ERROR_PREFIX, a.text)

\* the attempt reached the parse and gave a JSON array
AttemptParsed(a) == ~BeginsWithError(a) /\ attempt_parse(a.text).ok

\* C21: a planner whose every attempt fails to parse makes exactly 3 model
\* queries and no retrieval query, raises nothing and returns an empty
\* query list and an empty document list; an attempt that parses is the
\* last model query the planner makes.
C21_ParseFailuresExhaustAttempts ==
    \A kind \in PlanKinds :
        /\ Len(asked[kind]) <= 3
        /\ \A k \in DOMAIN asked[kind] :
                AttemptParsed(asked[kind][k]) => k = Len(asked[kind])
        /\ (/\ plans[kind].done
            /\ \A k \in DOMAIN asked[kind] :
                    ~AttemptParsed(asked[kind][k]) /\ ~BeginsWithError(asked[kind][k]))
           => /\ Len(asked[kind]) = 3
              /\ lookups[kind] = <<>>
              /\ ~plans[kind].raised
              /\ plans[kind].queries = <<>>
              /\ plans[kind].docs = <<>>

\* the cell planner has returned after three model texts that did not parse
C21_Witness ==
    /\ plans["cell"].done
    /\ ~plans["cell"].raised
    /\ Len(asked["cell"]) = 3
    /\ \A k \in 1..3 : asked["cell"][k].called /\ ~AttemptParsed(asked["cell"][k])
    /\ asked["cell"][3].text = RESP_nested
    /\ plans["cell"].queries = <<>>

\* C22: the first attempt of a planner whose query result begins with
\* 'Error:' is its last model query; the planner returns the failure text,
\* an empty query list and an empty document list, and has made no
\* retrieval query.
C22_QueryFailureReturnsAtOnce ==
    \A kind \in PlanKinds :
        \A k \in DOMAIN asked[kind] :
            BeginsWithError(asked[kind][k]) =>
                /\ k = Len(asked[kind])
                /\ plans[kind].done
                /\ ~plans[kind].raised
                /\ plans[kind].result_text =
                        (IF kind = "schema" THEN SCHEMA_FAILED ELSE CELL_FAILED)
                /\ plans[kind].queries = <<>>
                /\ plans[kind].docs = <<>>
                /\ lookups[kind] = <<>>

\* the cell planner has met a failed query on its second attempt
C22_Witness ==
    /\ Len(asked["cell"]) = 2
    /\ asked["cell"][1].text = RESP_none
    /\ asked["cell"][2].text = EMPTY_RESPONSE
    /\ plans["cell"].result_text = CELL_FAILED

\* C23: a planner that has ended has returned a triple, whatever the model
\* texts were; no exception has left it.
C23_PlannerNeverRaises ==
    \A kind \in PlanKinds : plans[kind].done => ~plans[kind].raised

\* the keyword parses as a number
numeric_keyword(q) == q.j = "num" \/ (q.j = "str" /\ float_parses(q.s))

\* the members of a sequence
Members(s) == {s[k] : k \in DOMAIN s}

\* C24: the cell planner, once it has ended, has queried the cell index
\* once for each extracted keyword that is no number, in their order, and
\* for no other; its queries hold no numeric keyword, and its documents
\* are the union of the results of the keywords, each once.
C24_CellIndexQueriedPerKeyword ==
    plans["cell"].done =>
        LET kept == SelectSeq(planning["cell"].queries, LAMBDA q : ~numeric_keyword(q))
        IN  /\ lookups["cell"] = kept
            /\ \A k \in DOMAIN plans["cell"].queries :
                    ~numeric_keyword(plans["cell"].queries[k])
            /\ plans["cell"].queries = kept
            /\ Cardinality(Members(plans["cell"].docs)) = Len(plans["cell"].docs)
            /\ Members(plans["cell"].docs) =
                    UNION {Members(retrieve("cell", cell_retriever, kept[k]).docs) :
                                k \in DOMAIN kept}

\* run() has ended at the size test: nothing was asked of the model, no
\* turn ran, and the answer and the logged text are the fixed error text
Aborted ==
    /\ stage = "logged"
    /\ pc = "idle"
    /\ turns = <<>>
    /\ total_input_token_count = 0
    /\ total_output_token_count = 0
    /\ logged.written
    /\ logged.n_iter = 0
    /\ logged.answer = TOO_LARGE
    /\ logged.text = TOO_LARGE

\* the original statement of C25: every agent given a table with
\* 3 x rows x columns above the context limit aborts
C25_OversizedTableAborts ==
    (stage # "idle" /\ 3 * df_nrow(data) * df_ncol(data) > context_limit) => Aborted

\* the table is too large by the test run() makes
TooLargeForAgent ==
    \/ agent_type = "PyReAct" /\ 3 * Len(data.rows) * data.ncol > context_limit
    \/ agent_type = "RandSampling" /\ 3 * top_k * data.ncol > context_limit

\* C25: a PyReAct agent given a table with 3 x rows x columns above the
\* context limit, and a RandSampling agent given one with
\* 3 x top_k x columns above it, abort the run before any turn: no model
\* query, no evaluation, n_iter 0, the answer and the logged text the fixed
\* error text.  The run of every other agent and table goes on to the
\* solver or the planners.
C25_OversizedTableAbortsForTestedAgents ==
    stage # "idle" =>
        IF TooLargeForAgent THEN Aborted
        ELSE /\ stage = "logged" => pc = "done"
             /\ stage \in {"schema", "cell", "solve", "raised"} \/ pc # "idle"

\* a PyReAct run on the tall table has ended at the size test
C25_Witness ==
    /\ agent_type = "PyReAct"
    /\ data = TABLE_TALL
    /\ stage = "logged"
    /\ logged.solution = TOO_LARGE

\* the cell (r, c) of the table, rows and columns counted from 0, is
\* neither missing nor blank
cell_kept(df, r, c) ==
    /\ df.rows[r + 1][c + 1] # NaN
    /\ df.rows[r + 1][c + 1] \notin Whitespace

\* C27: the corpora the retrievers were built from: one schema document and
\* one column document for each column, in column order, with the column's
\* position as col_id; one row document for each row, in row order, with
\* the row's position as row_id; one cell document for each cell that is
\* neither missing nor blank, row by row and within a row column by column,
\* with the cell's row_id, col_id and column name; the table is as given.
C27_CorporaFollowTable ==
    LET df == held[1]
        schema == schema_retriever.docs
        cells == cell_retriever.docs
        rows == retrievers[1]["row"].docs
        columns == retrievers[1]["column"].docs
    IN  /\ schema_retriever # NoRetriever =>
            /\ df = data
            /\ Len(schema) = df.ncol
            /\ \A c \in DOMAIN schema :
                    /\ schema[c].metadata.col_id = c - 1
                    /\ schema[c].metadata.col_name = df_columns(df)[c]
        /\ cell_retriever # NoRetriever =>
            /\ df = data
            /\ \A j \in DOMAIN cells :
                    /\ cells[j].metadata.row_id \in 0..(Len(df.rows) - 1)
                    /\ cells[j].metadata.col_id \in 0..(df.ncol - 1)
                    /\ cell_kept(df, cells[j].metadata.row_id, cells[j].metadata.col_id)
                    /\ cells[j].metadata.col_name =
                            df_columns(df)[cells[j].metadata.col_id + 1]
                    /\ cells[j].page_content =
                            str_strip(<<df.rows[cells[j].metadata.row_id + 1]
                                               [cells[j].metadata.col_id + 1]>>)
            /\ \A r \in 0..(Len(df.rows) - 1), c \in 0..(df.ncol - 1) :
                    cell_kept(df, r, c) =>
                        \E j \in DOMAIN cells :
                            cells[j].metadata.row_id = r /\ cells[j].metadata.col_id = c
            /\ \A j, k \in DOMAIN cells :
                    j < k =>
                        \/ cells[j].metadata.row_id < cells[k].metadata.row_id
                        \/ /\ cells[j].metadata.row_id = cells[k].metadata.row_id
                           /\ cells[j].metadata.col_id < cells[k].metadata.col_id
        /\ retrievers[1]["row"] # NoRetriever =>
            /\ Len(rows) = Len(df.rows)
            /\ \A r \in DOMAIN rows :
                    /\ rows[r].metadata.row_id = r - 1
                    /\ rows[r].page_content = join_cells(df.rows[r])
        /\ retrievers[1]["column"] # NoRetriever =>
            /\ Len(columns) = df.ncol
            /\ \A c \in DOMAIN columns :
                    /\ columns[c].metadata.col_id = c - 1
                    /\ columns[c].page_content =
                            join_cells([r \in DOMAIN df.rows |-> df.rows[r][c]])

\* the retrievers of a TableRAG run on the table with a missing and a blank
\* cell
C27_Witness ==
    /\ agent_type = "TableRAG"
    /\ data = TABLE_N
    /\ stage = "cell"
    /\ Len(cell_retriever.docs) = 4
    /\ Len(schema_retriever.docs) = 2
=============================================================================
